---- MODULE Spec2Model ----
(***************************************************************************)
(* Model of the pubpub harvesting pipelines.                               *)
(*                                                                         *)
(*   - the publications pipeline with its SQLite store and curation        *)
(*     (scripts/build-publications.mjs with SQLite, src/unnamed/part_003   *)
(*     lines 1-1297),                                                      *)
(*   - the PubMed client (src/unnamed/part_002) and the NIH RePORTER       *)
(*     client and pipeline (src/unnamed/part_001).                         *)
(*                                                                         *)
(* Dates are integers yyyymmdd; 0 stands for a missing date (null).        *)
(* Timestamps (nowIso) are the value of the clock `now`, which advances    *)
(* once per run.                                                           *)
(***************************************************************************)
EXTENDS Integers, Sequences, FiniteSets, TLC

VARIABLES
    db,          \* the SQLite store: publications, faculty_publications, curation, coauthors
    legacy,      \* data/curation.json: NoFile or its `faculty` object
    now,         \* the clock read by nowIso()
    pc,          \* position of the publications script: "idle" or "running"
    idx,         \* index in the roster of the researcher processed next
    results,     \* the `results` array of main()
    cycle,       \* the last iteration of main()'s loop: its researcher and the
                 \* provider's answers to its requests
    out,         \* public/data/publications.json: whether it exists, whether the latest
                 \* run wrote it, and then its content (the script never reads the
                 \* file, so an earlier run's content is not kept once a run starts)
    exitStatus,  \* exit status of the last finished run: "none", "ok", "fail"
    failed,      \* researchers whose processing threw in the current/last run
    \* the network client (ncbiGetJson / reporterSearch), one call at a time
    client,      \* "none", "ncbi" or "reporter"
    cpc,         \* "idle", "loop" (in the for loop), "returned", "failed" (threw)
    attempt,     \* the loop variable `attempt`
    requests,    \* fetch() calls issued by the current call
    last,        \* how the last fetch() ended
    error,       \* the error the call threw
    pause,       \* the last sleep, in ms
    \* the funding-award script (NIH RePORTER)
    gpc,         \* "idle", "running", "fetching", "exited"
    gidx,        \* index in the roster of the researcher processed next
    gresults,    \* the `results` array of its main()
    gfailed,     \* researchers whose fetch threw in this run
    gexit,       \* exit status: "none", "ok", "fail"
    \* a store transaction at statement level (db.transaction of replaceCoauthors)
    tx,          \* its stage, arguments, uncommitted table and the table before it
    \* writeFile(OUTPUT_PATH, ...) at system-call level
    disk,        \* the output file on disk: whether it exists and the entries it holds
    wf,          \* the writeFile call in progress: its stage and the document it writes
    \* main()'s loop at request level
    seq,         \* the researcher in turn, the position in the loop body, the requests
                 \* in flight and the log of requests, responses, writes and pauses
    \* the resolver's functions applied to one input
    arg,         \* the input: author entries, the researcher, the configuration
    ret          \* what the functions returned for it

pipeVars == <<db, legacy, now, pc, idx, results, cycle, out, exitStatus, failed>>
clientVars == <<client, cpc, attempt, requests, last, error, pause>>
grantVars == <<gpc, gidx, gresults, gfailed, gexit>>
txVars == <<tx>>
writeVars == <<disk, wf>>
seqVars == <<seq>>
fnVars == <<arg, ret>>
otherVars == <<txVars, writeVars, seqVars, fnVars>>
\* what the steps of a store transaction leave alone, besides the store
txRest == <<legacy, now, pc, idx, results, cycle, out, exitStatus, failed,
            clientVars, grantVars, writeVars, seqVars, fnVars>>
\* what the steps of writeFile leave alone
writeRest == <<pipeVars, clientVars, grantVars, txVars, seqVars, fnVars>>
\* what the steps of the loop at request level leave alone
seqRest == <<pipeVars, clientVars, grantVars, txVars, writeVars, fnVars>>
\* what an application of the resolver's functions leaves alone
fnRest == <<pipeVars, clientVars, grantVars, txVars, writeVars, seqVars>>
\* the pipeline's variables other than the store
pipeRest == <<legacy, now, pc, idx, results, cycle, out, exitStatus, failed>>

-----------------------------------------------------------------------------
(* Bounds and input domains *)

MaxRuns == 2

\* roster order (parseFaculty output order)
FACULTY == <<"f1", "f2">>
Faculty == {FACULTY[i] : i \in DOMAIN FACULTY}
\* candidate record identifiers the provider knows
PMIDS == {101}

Date(y, m, d) == y * 10000 + m * 100 + d
NoDate == 0
getFullYear(date) == date \div 10000

\* person.startDate / DEFAULT_END_DATE of the run configuration
personStartDate == Date(2020, 6, 1)
personEndDate == Date(2021, 12, 31)

-----------------------------------------------------------------------------
(* Strings. A string is the sequence of its characters.                      *)

UpperCase == <<"A", "B", "C", "D", "E", "F", "G", "H", "I", "J", "K", "L", "M",
               "N", "O", "P", "Q", "R", "S", "T", "U", "V", "W", "X", "Y", "Z">>
LowerCase == <<"a", "b", "c", "d", "e", "f", "g", "h", "i", "j", "k", "l", "m",
               "n", "o", "p", "q", "r", "s", "t", "u", "v", "w", "x", "y", "z">>
Digits == {"0", "1", "2", "3", "4", "5", "6", "7", "8", "9"}

\* String.prototype.toLowerCase, one character
lowerChar(ch) ==
    IF \E i \in DOMAIN UpperCase : UpperCase[i] = ch
    THEN LowerCase[CHOOSE i \in DOMAIN UpperCase : UpperCase[i] = ch]
    ELSE ch

toLowerCase(str) == [i \in DOMAIN str |-> lowerChar(str[i])]

RECURSIVE trimStart(_)
trimStart(str) ==
    IF str # <<>> /\ Head(str) = " " THEN trimStart(Tail(str)) ELSE str

RECURSIVE trimEnd(_)
trimEnd(str) ==
    IF str # <<>> /\ str[Len(str)] = " " THEN trimEnd(SubSeq(str, 1, Len(str) - 1)) ELSE str

\* String.prototype.trim
trim(str) == trimEnd(trimStart(str))

\* str.split(/\s+/) of a string whose only white space is " ": the pieces between
\* the runs of spaces, the empty piece before a leading and after a trailing run
RECURSIVE splitSpaces(_, _, _, _)
splitSpaces(str, i, current, tokens) ==
    IF i > Len(str) THEN Append(tokens, current)
    ELSE IF str[i] = " "
         THEN IF i > 1 /\ str[i - 1] = " "
              THEN splitSpaces(str, i + 1, current, tokens)
              ELSE splitSpaces(str, i + 1, <<>>, Append(tokens, current))
         ELSE splitSpaces(str, i + 1, Append(current, str[i]), tokens)

-----------------------------------------------------------------------------
(* Publication dates *)

MONTH_INDEX == <<<<"j", "a", "n">>, <<"f", "e", "b">>, <<"m", "a", "r">>, <<"a", "p", "r">>, <<"m", "a", "y">>, <<"j", "u", "n">>,
                 <<"j", "u", "l">>, <<"a", "u", "g">>, <<"s", "e", "p">>, <<"o", "c", "t">>, <<"n", "o", "v">>, <<"d", "e", "c">>>>

allDigits(str) == \A i \in DOMAIN str : str[i] \in Digits
digitIndex(ch) ==
    CHOOSE i \in 0..9 : ch = <<"0", "1", "2", "3", "4", "5", "6", "7", "8", "9">>[i + 1]

\* Number(value) of a string of letters and digits; NaN for one that is no numeral
NaN == -1
RECURSIVE Number(_)
Number(str) ==
    IF ~allDigits(str) THEN NaN
    ELSE IF str = <<>> THEN 0
    ELSE 10 * Number(SubSeq(str, 1, Len(str) - 1)) + digitIndex(str[Len(str)])

\* a missing month (null), as opposed to the month index 0
NoMonth == -1

parseMonthValue(value) ==
    IF value = <<>> THEN NoMonth
    ELSE LET token == toLowerCase(value)
             numeric == Number(token)
             key == SubSeq(token, 1, IF Len(token) < 3 THEN Len(token) ELSE 3)
         IN IF numeric # NaN
            THEN IF numeric - 1 >= 0 /\ numeric - 1 <= 11 THEN numeric - 1 ELSE NoMonth
            ELSE IF \E m \in DOMAIN MONTH_INDEX : MONTH_INDEX[m] = key
                 THEN (CHOOSE m \in DOMAIN MONTH_INDEX : MONTH_INDEX[m] = key) - 1
                 ELSE NoMonth

\* String(value).match(/\d{4}/): the first four digits in a row; 0 for none
parseYearValue(value) ==
    LET starts == {i \in 1..(Len(value) - 3) : allDigits(SubSeq(value, i, i + 3))}
    IN IF starts = {} THEN 0
       ELSE LET first == CHOOSE i \in starts : \A j \in starts : i <= j
            IN Number(SubSeq(value, first, first + 3))

\* new Date(year, monthIndex, day), for a day the month has
buildDateFromParts(yearValue, monthValue, dayValue) ==
    LET year == parseYearValue(yearValue)
        parsedMonth == parseMonthValue(monthValue)
        monthIndex == IF parsedMonth = NoMonth THEN 0 ELSE parsedMonth
        dayNumber == Number(dayValue)
        day == IF dayNumber # NaN /\ dayNumber >= 1 /\ dayNumber <= 31 THEN dayNumber ELSE 1
    IN IF year = 0 THEN NoDate ELSE Date(year, monthIndex + 1, day)

\* the least index of a set of indexes, 0 for the empty set
firstIndex(indexes) ==
    IF indexes = {} THEN 0 ELSE CHOOSE i \in indexes : \A j \in indexes : i <= j

parsePubDateString(value) ==
    LET cleaned == trim([i \in DOMAIN value |->
                            IF value[i] \in {";", ","} THEN " " ELSE value[i]])
        spaced == [i \in DOMAIN cleaned |->
                      IF cleaned[i] \in {"-", "/"} THEN " " ELSE cleaned[i]]
        tokens == SelectSeq(splitSpaces(spaced, 1, <<>>, <<>>), LAMBDA t : t # <<>>)
        yearIndex == firstIndex({i \in DOMAIN tokens :
                                    Len(tokens[i]) = 4 /\ allDigits(tokens[i])})
        year == IF yearIndex = 0 THEN 0 ELSE Number(tokens[yearIndex])
        monthTokenIndex ==
            firstIndex({i \in DOMAIN tokens :
                           i > yearIndex /\ parseMonthValue(tokens[i]) # NoMonth})
        monthIndex == IF monthTokenIndex = 0 THEN 0
                      ELSE parseMonthValue(tokens[monthTokenIndex])
        dayTokenIndex ==
            IF monthTokenIndex = 0 THEN 0
            ELSE firstIndex({i \in DOMAIN tokens :
                                /\ i > monthTokenIndex
                                /\ Len(tokens[i]) \in {1, 2} /\ allDigits(tokens[i])
                                /\ Number(tokens[i]) >= 1 /\ Number(tokens[i]) <= 31})
        day == IF dayTokenIndex = 0 THEN 1 ELSE Number(tokens[dayTokenIndex])
    IN IF value = <<>> \/ year = 0 THEN NoDate ELSE Date(year, monthIndex + 1, day)

\* summary.pubdate of the summaries: month and year only
SummaryPubdates == {<<"2", "0", "2", "0", " ", "M", "a", "r">>,
                    <<"2", "0", "2", "1", " ", "M", "a", "r">>,
                    <<"2", "0", "2", "2", " ", "J", "a", "n">>}
\* what parsePubDateString reads in them
SummaryDates == {parsePubDateString(value) : value \in SummaryPubdates}
\* PubDate of the article XML: missing, or a year and a month without a day
XmlPubDates == {[Year |-> <<>>, Month |-> <<>>, Day |-> <<>>],
                [Year |-> <<"2", "0", "2", "0">>, Month |-> <<"S", "e", "p">>, Day |-> <<>>]}
\* publication date of the article XML (parsePubDateFromXml), possibly missing
XmlDates == {buildDateFromParts(x.Year, x.Month, x.Day) : x \in XmlPubDates}

\* a missing data/curation.json; an output file never written
NoFile == [exists |-> FALSE, faculty |-> [f \in {} |-> {}]]
NoDoc == [written |-> FALSE, current |-> FALSE, source |-> "", faculty |-> <<>>]

-----------------------------------------------------------------------------
(* The provider's answers for one researcher's cycle.                      *)
(* For every identifier one case: whether the search returns it            *)
(* (fetchPmids), whether esummary returns a summary for it                 *)
(* (fetchSummaries), how the resolver's author/affiliation test ends on    *)
(* its article XML, and the dates of the XML and of the summary.           *)
(* The article's author list is <<"Au1", X>>: X is the researcher          *)
(* (match "ok" or "affbad") or a third person "Au2" (match "none").        *)

MatchKinds == {"none", "affbad", "ok"}

Cases ==
    { c \in [inSearch : BOOLEAN, summary : BOOLEAN, match : MatchKinds,
             xdate : XmlDates, sdate : SummaryDates] :
        /\ (~c.inSearch => (c.match = "none" /\ c.xdate = NoDate))
        \* the summary's date is read only when there is a summary and no XML date
        /\ ((~c.summary \/ c.xdate # NoDate) => c.sdate = Date(2021, 3, 1)) }

Resp == [PMIDS -> Cases]

-----------------------------------------------------------------------------
(* Persistent Record Store *)

\* initDb: the four tables, empty
initDb ==
    [publications |-> {}, faculty_publications |-> {}, curation |-> {}, coauthors |-> {}]

\* mutant: a plain INSERT that keeps the pair's earlier row
upsertCuration_insertOnly(cur, f, p, v) ==
    cur \cup {[faculty_id |-> f, pmid |-> p, verdict |-> v]}

\* INSERT INTO curation ... ON CONFLICT(faculty_id, pmid) DO UPDATE SET verdict = ...
upsertCuration(cur, f, p, v) ==
    {c \in cur : ~(c.faculty_id = f /\ c.pmid = p)}
        \cup {[faculty_id |-> f, pmid |-> p, verdict |-> v]}

RECURSIVE insertVerdicts(_, _, _, _)
insertVerdicts(cur, f, ps, v) ==
    IF ps = {} THEN cur
    ELSE LET p == CHOOSE x \in ps : TRUE
         IN insertVerdicts(upsertCuration(cur, f, p, v), f, ps \ {p}, v)

RECURSIVE seedEntries(_, _, _)
seedEntries(cur, file, fs) ==
    IF fs = {} THEN cur
    ELSE LET f == CHOOSE x \in fs : TRUE
             withFalse == insertVerdicts(cur, f, file[f].falsePositives, "false_positive")
             withTrue == insertVerdicts(withFalse, f, file[f].truePositives, "true_positive")
         IN seedEntries(withTrue, file, fs \ {f})

\* mutant: the seed without the `count > 0` early return
seedCurationFromJson_always(cur, file) ==
    IF ~file.exists THEN cur
    ELSE seedEntries(cur, file.faculty, DOMAIN file.faculty)

\* seedCurationFromJson: only when the file exists and the table is empty
seedCurationFromJson(cur, file) ==
    IF ~file.exists THEN cur
    ELSE IF Cardinality(cur) > 0 THEN cur
    ELSE seedEntries(cur, file.faculty, DOMAIN file.faculty)

getCurationForPerson(d, f) ==
    [falsePositives |-> {c.pmid : c \in {x \in d.curation :
                            x.faculty_id = f /\ x.verdict = "false_positive"}},
     truePositives |-> {c.pmid : c \in {x \in d.curation :
                            x.faculty_id = f /\ x.verdict = "true_positive"}}]

\* mutant: a plain INSERT, without ON CONFLICT(pmid) DO UPDATE
upsertPublication_insertOnly(pubs, publication) ==
    pubs \cup {[pmid |-> publication.id, year |-> publication.year]}

\* INSERT INTO publications ... ON CONFLICT(pmid) DO UPDATE SET ...
\* (title, journal, doi and url are fixed by the identifier here; updated_at is not kept)
upsertPublication(pubs, publication) ==
    {r \in pubs : r.pmid # publication.id}
        \cup {[pmid |-> publication.id, year |-> publication.year]}

\* mutant: INSERT OR REPLACE, which rewrites first_seen_at as well
upsertFacultyPublication_replace(fp, f, p, timestamp) ==
    {r \in fp : ~(r.faculty_id = f /\ r.pmid = p)}
        \cup {[faculty_id |-> f, pmid |-> p,
                first_seen_at |-> timestamp, last_seen_at |-> timestamp]}

\* INSERT INTO faculty_publications ... ON CONFLICT DO UPDATE SET last_seen_at = excluded.last_seen_at
upsertFacultyPublication(fp, f, p, timestamp) ==
    IF \E r \in fp : r.faculty_id = f /\ r.pmid = p
    THEN {IF r.faculty_id = f /\ r.pmid = p
          THEN [r EXCEPT !.last_seen_at = timestamp] ELSE r : r \in fp}
    ELSE fp \cup {[faculty_id |-> f, pmid |-> p,
                   first_seen_at |-> timestamp, last_seen_at |-> timestamp]}

\* DELETE ... WHERE faculty_id = ? AND pmid = ?; INSERT OR IGNORE each non-empty name
replaceCoauthors(co, f, p, names) ==
    {r \in co : ~(r.faculty_id = f /\ r.pmid = p)}
        \cup {[faculty_id |-> f, pmid |-> p, name |-> n] : n \in {x \in names : x # ""}}

\* mutant: the read without the LEFT JOIN on curation
getPublicationsForFaculty_noCuration(d, f) ==
    {p \in d.publications :
        \E fp \in d.faculty_publications : fp.pmid = p.pmid /\ fp.faculty_id = f}

\* mutant: the LEFT JOIN on curation without `c.faculty_id = fp.faculty_id`
getPublicationsForFaculty_anyResearcher(d, f) ==
    {p \in d.publications :
        \E fp \in d.faculty_publications :
            /\ fp.pmid = p.pmid
            /\ fp.faculty_id = f
            /\ ~\E c \in d.curation :
                    c.pmid = fp.pmid /\ c.verdict = "false_positive"}

getPublicationsForFaculty(d, f) ==
    {p \in d.publications :
        \E fp \in d.faculty_publications :
            /\ fp.pmid = p.pmid
            /\ fp.faculty_id = f
            /\ ~\E c \in d.curation :
                    /\ c.faculty_id = fp.faculty_id
                    /\ c.pmid = fp.pmid
                    /\ c.verdict = "false_positive"}

getFalsePositivePublications(d, f) ==
    {p \in d.publications :
        \E c \in d.curation :
            c.pmid = p.pmid /\ c.faculty_id = f /\ c.verdict = "false_positive"}

getCoauthorsForFaculty(d, f) ==
    [p \in {r.pmid : r \in {x \in d.coauthors : x.faculty_id = f}} |->
        {r.name : r \in {x \in d.coauthors : x.faculty_id = f /\ x.pmid = p}}]

-----------------------------------------------------------------------------
(* Identity & Affiliation Resolver, as the pipeline driver sees it *)

\* filterPmidsByAuthorAffiliation over the searched identifiers `pmids`
\* (VALIDATE_AFFILIATION on): kept, pubDates, coauthorsByPmid, authorshipByPmid
filterPmidsByAuthorAffiliation(pmids, r) ==
    [validPmids |-> {p \in pmids : r[p].match = "ok"},
     pubDates |-> [p \in {x \in pmids : r[x].xdate # NoDate} |-> r[p].xdate],
     coauthorsByPmid |-> [p \in pmids |->
                            IF r[p].match = "none" THEN {"Au1", "Au2"} ELSE {"Au1"}],
     authorshipByPmid |-> {p \in pmids : r[p].match # "none"}]

\* pubDates.get(uid) || parsePubDateString(summary.pubdate)
resolvePubDate(p, r, pubDates) ==
    IF p \in DOMAIN pubDates /\ pubDates[p] # NoDate THEN pubDates[p] ELSE r[p].sdate

mapSummaryToPublication(p, r, pubDate) ==
    [id |-> p,
     year |-> IF pubDate # NoDate THEN getFullYear(pubDate) ELSE getFullYear(r[p].sdate)]

\* mutant: the window compares years only
shouldIncludePublication_yearOnly(pubDate, pubYear, startDate, endDate) ==
    LET startYear == IF startDate # NoDate THEN getFullYear(startDate) ELSE 0
        endYear == IF endDate # NoDate THEN getFullYear(endDate) ELSE 0
    IN  IF pubYear # 0 /\ startYear # 0 /\ pubYear < startYear THEN FALSE
        ELSE IF pubYear # 0 /\ endYear # 0 /\ pubYear > endYear THEN FALSE
        ELSE TRUE

shouldIncludePublication(pubDate, pubYear, startDate, endDate) ==
    LET startYear == IF startDate # NoDate THEN getFullYear(startDate) ELSE 0
        endYear == IF endDate # NoDate THEN getFullYear(endDate) ELSE 0
    IN  IF pubYear # 0 /\ startYear # 0 /\ pubYear < startYear THEN FALSE
        ELSE IF pubYear # 0 /\ endYear # 0 /\ pubYear > endYear THEN FALSE
        ELSE IF startDate # NoDate /\ pubDate # NoDate /\ pubDate < startDate THEN FALSE
        ELSE IF endDate # NoDate /\ pubDate # NoDate /\ pubDate > endDate THEN FALSE
        ELSE IF startDate # NoDate /\ pubDate = NoDate /\ pubYear = startYear THEN FALSE
        ELSE TRUE

-----------------------------------------------------------------------------
(* Signal Aggregator and output entry *)

\* .sort((a, b) => (b.year || 0) - (a.year || 0) || a.title.localeCompare(b.title));
\* titles are "PubMed <uid>", so equal years are ordered by identifier
RECURSIVE sortPublications(_)
sortPublications(S) ==
    IF S = {} THEN <<>>
    ELSE LET first == CHOOSE a \in S : \A b \in S :
                          \/ a.year > b.year
                          \/ (a.year = b.year /\ a.pmid <= b.pmid)
         IN <<first>> \o sortPublications(S \ {first})

\* buildSignals: count, year histogram, co-author frequencies
buildSignals(pubs, coauthorsByPmid) ==
    LET names == UNION {coauthorsByPmid[p.pmid] :
                        p \in {x \in pubs : x.pmid \in DOMAIN coauthorsByPmid}}
    IN [count |-> Cardinality(pubs),
        yearCounts |-> {<<y, Cardinality({p \in pubs : p.year = y})>> :
                            y \in {p.year : p \in pubs}},
        topCoauthors |-> {<<n, Cardinality({p \in pubs :
                                    /\ p.pmid \in DOMAIN coauthorsByPmid
                                    /\ n \in coauthorsByPmid[p.pmid]})>> : n \in names}]

\* buildAuthorCounts: null when no authorship fact was resolved in this cycle
buildAuthorCounts(pubs, authorshipByPmid) ==
    IF authorshipByPmid = {} THEN [null |-> TRUE, total |-> 0, known |-> 0]
    ELSE [null |-> FALSE, total |-> Cardinality(pubs),
          known |-> Cardinality({p \in pubs : p.pmid \in authorshipByPmid})]

-----------------------------------------------------------------------------
(* Pipeline driver: one iteration of main()'s loop for researcher f,       *)
(* with the provider answering r, on store d at time t.                    *)

RECURSIVE upsertPublications(_, _)
upsertPublications(pubs, toPersist) ==
    IF toPersist = {} THEN pubs
    ELSE LET x == CHOOSE y \in toPersist : TRUE
         IN upsertPublications(upsertPublication(pubs, x), toPersist \ {x})

RECURSIVE upsertFacultyPublications(_, _, _, _)
upsertFacultyPublications(fp, f, ps, t) ==
    IF ps = {} THEN fp
    ELSE LET p == CHOOSE y \in ps : TRUE
         IN upsertFacultyPublications(upsertFacultyPublication(fp, f, p, t), f, ps \ {p}, t)

RECURSIVE replaceAllCoauthors(_, _, _, _)
replaceAllCoauthors(co, f, ps, coauthorsByPmid) ==
    IF ps = {} THEN co
    ELSE LET p == CHOOSE y \in ps : TRUE
         IN replaceAllCoauthors(replaceCoauthors(co, f, p, coauthorsByPmid[p]),
                                f, ps \ {p}, coauthorsByPmid)

\* mutant: curatedValidPmids without the true positives
publicationsToUpsert_validOnly(summarized, validPmids, falsePositiveSet, truePositiveSet, r, pubDates) ==
    {p \in summarized :
        /\ p \in validPmids
        /\ p \notin falsePositiveSet
        /\ IF p \in truePositiveSet THEN TRUE
           ELSE LET pubDate == resolvePubDate(p, r, pubDates)
                    pubYear == IF pubDate # NoDate THEN getFullYear(pubDate)
                               ELSE getFullYear(r[p].sdate)
                IN shouldIncludePublication(pubDate, pubYear,
                                            personStartDate, personEndDate)}

\* the identifiers of publicationsToUpsert
publicationsToUpsert(summarized, validPmids, falsePositiveSet, truePositiveSet, r, pubDates) ==
    LET curatedValidPmids == validPmids \cup truePositiveSet
    IN {p \in summarized :
            /\ p \in curatedValidPmids
            /\ p \notin falsePositiveSet
            /\ IF p \in truePositiveSet THEN TRUE
               ELSE LET pubDate == resolvePubDate(p, r, pubDates)
                        pubYear == IF pubDate # NoDate THEN getFullYear(pubDate)
                                   ELSE getFullYear(r[p].sdate)
                    IN shouldIncludePublication(pubDate, pubYear,
                                                personStartDate, personEndDate)}

\* mutant: only the summaries of the searched identifiers
summariesFetched_searchOnly(pmids, curatedPmids, r) ==
    {p \in pmids : r[p].summary}

\* the identifiers of `summaries`: fetchSummaries over the searched identifiers,
\* then over the curated identifiers that summaryMap does not hold
summariesFetched(pmids, curatedPmids, r) ==
    LET summaryMap == {p \in pmids : r[p].summary}
        missingCuratedPmids == {p \in curatedPmids : p \notin summaryMap}
    IN summaryMap \cup {p \in missingCuratedPmids : r[p].summary}

Cycle(d, f, r, t) ==
    LET pmids == {p \in PMIDS : r[p].inSearch}
        curation == getCurationForPerson(d, f)
        falsePositiveSet == curation.falsePositives
        truePositiveSet == curation.truePositives
        resolved == filterPmidsByAuthorAffiliation(pmids, r)
        curatedPmids == falsePositiveSet \cup truePositiveSet
        summarized == summariesFetched(pmids, curatedPmids, r)
        toUpsert == publicationsToUpsert(summarized, resolved.validPmids,
                        falsePositiveSet, truePositiveSet, r, resolved.pubDates)
        falsePositivePublications == {p \in summarized : p \in falsePositiveSet}
        toPersist == toUpsert \cup (falsePositivePublications \ toUpsert)
        pubs1 == upsertPublications(d.publications,
                    {mapSummaryToPublication(p, r, resolvePubDate(p, r, resolved.pubDates)) :
                        p \in toPersist})
        fp1 == upsertFacultyPublications(d.faculty_publications, f, toUpsert, t)
        co1 == replaceAllCoauthors(d.coauthors, f,
                    {p \in DOMAIN resolved.coauthorsByPmid : p \in toPersist},
                    resolved.coauthorsByPmid)
        d1 == [d EXCEPT !.publications = pubs1, !.faculty_publications = fp1,
                        !.coauthors = co1]
        dbPublications == getPublicationsForFaculty(d1, f)
        sorted == sortPublications(dbPublications)
        publicationsWithAuthorship ==
            [i \in DOMAIN sorted |->
                [id |-> sorted[i].pmid, year |-> sorted[i].year,
                 authorship |-> sorted[i].pmid \in resolved.authorshipByPmid]]
        coauthorsFromDb == getCoauthorsForFaculty(d1, f)
    IN [db |-> d1,
        result |-> [id |-> f,
                    publications |-> publicationsWithAuthorship,
                    authorCounts |-> buildAuthorCounts(dbPublications,
                                                       resolved.authorshipByPmid),
                    signals |-> [positive |-> buildSignals(dbPublications, coauthorsFromDb),
                                 negative |-> buildSignals(
                                     getFalsePositivePublications(d1, f), coauthorsFromDb)]],
        locals |-> [person |-> f, resp |-> r]]

\* mutant: the publications rows are written ahead of the fetch for curated identifiers
CycleStatements_writeBeforeFetch ==
    <<[kind |-> "request", what |-> "search"],
      [kind |-> "request", what |-> "xml"],
      [kind |-> "request", what |-> "summaries"],
      [kind |-> "write", what |-> "upsertPublication"],
      [kind |-> "request", what |-> "missing"],
      [kind |-> "write", what |-> "upsertFacultyPublication"],
      [kind |-> "write", what |-> "replaceCoauthors"]>>

\* the provider requests and the store statements of one iteration of the
\* loop, in the order of the code: fetchPmids, fetchArticleXml (in
\* filterPmidsByAuthorAffiliation), fetchSummaries, fetchSummaries for the
\* missing curated identifiers, then the three loops of store statements
CycleStatements ==
    <<[kind |-> "request", what |-> "search"],
      [kind |-> "request", what |-> "xml"],
      [kind |-> "request", what |-> "summaries"],
      [kind |-> "request", what |-> "missing"],
      [kind |-> "write", what |-> "upsertPublication"],
      [kind |-> "write", what |-> "upsertFacultyPublication"],
      [kind |-> "write", what |-> "replaceCoauthors"]>>

\* the number of store statements ahead of the i-th statement
writesBefore(i) ==
    Cardinality({j \in 1..(i - 1) : CycleStatements[j].kind = "write"})

\* whether f's iteration makes the request: the search always; the article
\* XML and the summaries when the search returned identifiers; the dedicated
\* fetch when a curated identifier has no summary yet
requestMade(what, d, f, r) ==
    LET pmids == {p \in PMIDS : r[p].inSearch}
        curation == getCurationForPerson(d, f)
        curatedPmids == curation.falsePositives \cup curation.truePositives
    IN CASE what = "search" -> TRUE
         [] what \in {"xml", "summaries"} -> pmids # {}
         [] what = "missing" -> \E p \in curatedPmids : ~(p \in pmids /\ r[p].summary)

\* mutant: the association rows are written ahead of the publications rows
cycleKilled_associationsFirst(d, f, r, t, k) ==
    LET c == Cycle(d, f, r, t).db
    IN [publications |-> IF k >= 2 THEN c.publications ELSE d.publications,
        faculty_publications |-> IF k >= 1 THEN c.faculty_publications
                                 ELSE d.faculty_publications,
        curation |-> d.curation,
        coauthors |-> IF k >= 3 THEN c.coauthors ELSE d.coauthors]

\* the store when f's cycle is killed after the first k of its store statements
\* (publicationsToPersist.forEach upsertPublication, publicationsToUpsert.forEach
\* upsertFacultyPublication, coauthorsByPmid.forEach replaceCoauthors: with one
\* identifier each loop is one statement)
cycleKilled(d, f, r, t, k) ==
    LET c == Cycle(d, f, r, t).db
    IN [publications |-> IF k >= 1 THEN c.publications ELSE d.publications,
        faculty_publications |-> IF k >= 2 THEN c.faculty_publications
                                 ELSE d.faculty_publications,
        curation |-> d.curation,
        coauthors |-> IF k >= 3 THEN c.coauthors ELSE d.coauthors]

-----------------------------------------------------------------------------
(* The publications script: main() *)

\* data/curation.json: absent, or its `faculty` object
LegacyFiles ==
    {NoFile,
     [exists |-> TRUE,
      faculty |-> [f \in Faculty |->
                    IF f = "f1" THEN [falsePositives |-> {101}, truePositives |-> {101}]
                    ELSE [falsePositives |-> {101}, truePositives |-> {}]]]}

NoCycle == [person |-> "none", resp |-> [p \in PMIDS |-> CHOOSE c \in Cases : ~c.inSearch /\ ~c.summary]]

InitPipeline ==
    /\ db = initDb
    /\ now = 0
    /\ pc = "idle"
    /\ idx = 1
    /\ results = <<>>
    /\ cycle = NoCycle
    /\ out = NoDoc
    /\ exitStatus = "none"
    /\ failed = {}

\* node scripts/build-publications.mjs: parseFaculty, initDb, seedCurationFromJson
StartRun ==
    /\ pc = "idle"
    /\ now < MaxRuns
    /\ now' = now + 1
    /\ db' = [db EXCEPT !.curation = seedCurationFromJson(db.curation, legacy)]
    /\ pc' = "running"
    /\ idx' = 1
    /\ results' = <<>>
    /\ cycle' = NoCycle
    /\ exitStatus' = "none"
    /\ failed' = {}
    /\ out' = IF out.written THEN [out EXCEPT !.current = FALSE, !.faculty = <<>>] ELSE out
    /\ UNCHANGED <<legacy>>
    /\ UNCHANGED <<clientVars, grantVars, otherVars>>

\* mutant: an iteration that also records a verdict for what the affiliation test rejects
ProcessPerson_autoCurate ==
    /\ pc = "running"
    /\ idx <= Len(FACULTY)
    /\ \E r \in Resp :
          LET c == Cycle(db, FACULTY[idx], r, now)
          IN /\ db' = [c.db EXCEPT !.curation =
                          insertVerdicts(@, FACULTY[idx],
                              {p \in PMIDS : r[p].match = "affbad"}, "false_positive")]
             /\ results' = Append(results, c.result)
             /\ cycle' = c.locals
    /\ idx' = idx + 1
    /\ UNCHANGED <<legacy, now, pc, out, exitStatus, failed>>
    /\ UNCHANGED <<clientVars, grantVars, otherVars>>

\* one iteration of `for (const person of faculty)` in which every request succeeds
ProcessPerson ==
    /\ pc = "running"
    /\ idx <= Len(FACULTY)
    /\ \E r \in Resp :
          LET c == Cycle(db, FACULTY[idx], r, now)
          IN /\ db' = c.db
             /\ results' = Append(results, c.result)
             /\ cycle' = c.locals
    /\ idx' = idx + 1
    /\ UNCHANGED <<legacy, now, pc, out, exitStatus, failed>>
    /\ UNCHANGED <<clientVars, grantVars, otherVars>>

\* a request of the iteration (fetchPmids, fetchArticleXml, fetchSummaries) throws:
\* main() rejects, main().catch logs and calls process.exit(1)
ProcessPersonFails ==
    /\ pc = "running"
    /\ idx <= Len(FACULTY)
    /\ \E i \in DOMAIN CycleStatements :
          /\ CycleStatements[i].kind = "request"
          /\ IF writesBefore(i) = 0
             \* the store is as it was, whatever the provider answered so far
             THEN /\ {r \in Resp :
                        requestMade(CycleStatements[i].what, db, FACULTY[idx], r)} # {}
                  /\ db' = db
             ELSE \E r \in Resp :
                     /\ requestMade(CycleStatements[i].what, db, FACULTY[idx], r)
                     /\ db' = cycleKilled(db, FACULTY[idx], r, now, writesBefore(i))
    /\ failed' = failed \cup {FACULTY[idx]}
    /\ exitStatus' = "fail"
    /\ pc' = "idle"
    /\ cycle' = NoCycle
    /\ idx' = 1
    /\ results' = <<>>
    /\ UNCHANGED <<legacy, now, out>>
    /\ UNCHANGED <<clientVars, grantVars, otherVars>>

\* the process is killed during the loop: between two iterations, or in an
\* iteration after the first k of its store statements (each statement is
\* committed on its own; nothing wraps the three loops in a transaction)
Kill ==
    /\ pc = "running"
    /\ IF idx <= Len(FACULTY)
       THEN db' \in {cycleKilled(db, FACULTY[idx], r, now, k) : r \in Resp, k \in 0..3}
       ELSE db' = db
    /\ exitStatus' = "killed"
    /\ pc' = "idle"
    /\ cycle' = NoCycle
    /\ idx' = 1
    /\ results' = <<>>
    /\ UNCHANGED <<legacy, now, out, failed>>
    /\ UNCHANGED <<clientVars, grantVars, otherVars>>

\* writeFile(OUTPUT_PATH, JSON.stringify(output)); db.close()
WriteOutput ==
    /\ pc = "running"
    /\ idx > Len(FACULTY)
    /\ out' = [written |-> TRUE, current |-> TRUE,
               source |-> "PubMed E-utilities", faculty |-> results]
    /\ exitStatus' = "ok"
    /\ pc' = "idle"
    /\ cycle' = NoCycle
    /\ idx' = 1
    /\ results' = <<>>
    /\ UNCHANGED <<db, legacy, now, failed>>
    /\ UNCHANGED <<clientVars, grantVars, otherVars>>

\* the operator's sqlite3 INSERT ... ON CONFLICT DO UPDATE of the README, between runs
OperatorUpsert ==
    /\ pc = "idle" /\ now < MaxRuns
    /\ \E f \in Faculty, p \in PMIDS, v \in {"true_positive", "false_positive"} :
          /\ db' = [db EXCEPT !.curation = upsertCuration(db.curation, f, p, v)]
          /\ db' # db
    /\ UNCHANGED <<legacy, now, pc, idx, results, cycle, out, exitStatus, failed>>
    /\ UNCHANGED <<clientVars, grantVars, otherVars>>

-----------------------------------------------------------------------------
(* Retrying network client: ncbiGetJson (PubMed) and reporterSearch         *)
(* (NIH RePORTER). One action per iteration of the for loop, by outcome.    *)

MaxRetriesNcbi == 8
MaxRetriesReporter == 6
BaseDelayMs == 800

maxRetries(c) == IF c = "reporter" THEN MaxRetriesReporter ELSE MaxRetriesNcbi

RETRYABLE_STATUSES == {429, 500, 502, 503, 504}
\* HTTP error statuses a response can carry (response.ok is false)
ErrorStatuses == RETRYABLE_STATUSES \cup {400, 404}

\* Math.random() * 0.25, in percent
JitterPct == {0, 12, 24}

RECURSIVE Pow2(_)
Pow2(n) == IF n = 0 THEN 1 ELSE 2 * Pow2(n - 1)

\* mutant: the base delay does not grow with the attempt
sleepMs_noDoubling(att, j) == (BaseDelayMs * (100 + j)) \div 100

\* baseDelay * jitter
sleepMs(att, j) == (BaseDelayMs * Pow2(att) * (100 + j)) \div 100

NoOutcome == [kind |-> "none", status |-> 0]
NoError == [kind |-> "none", status |-> 0, body |-> FALSE]

InitClient ==
    /\ client = "none"
    /\ cpc = "idle"
    /\ attempt = 0
    /\ requests = 0
    /\ last = NoOutcome
    /\ error = NoError
    /\ pause = 0

\* entering the function: attempt = 0
beginCall(c) ==
    /\ client' = c
    /\ cpc' = "loop"
    /\ attempt' = 0
    /\ requests' = 0
    /\ last' = NoOutcome
    /\ error' = NoError
    /\ pause' = 0

\* mutant: the catch block gives up one attempt early
retryAfterThrow_early(att, max) == att < max - 2

\* catch (error) { if (attempt < maxRetries - 1) { sleep; continue; } throw error; }
retryAfterThrow(att, max) == att < max - 1

\* the catch block, for the error `e` thrown in the try block
catchBlock(e) ==
    IF retryAfterThrow(attempt, maxRetries(client))
    THEN /\ \E j \in JitterPct : pause' = sleepMs(attempt, j)
         /\ attempt' = attempt + 1
         /\ UNCHANGED <<cpc, error>>
    ELSE /\ cpc' = "failed"
         /\ error' = e
         /\ UNCHANGED <<attempt, pause>>

\* mutant: a loop without the bound on `attempt`
InLoop_unbounded == cpc = "loop"

\* for (let attempt = 0; attempt < maxRetries; attempt += 1)
InLoop == cpc = "loop" /\ attempt < maxRetries(client)

\* response.ok: return response.json()
AttemptOk ==
    /\ InLoop
    /\ requests' = requests + 1
    /\ last' = [kind |-> "ok", status |-> 200]
    /\ cpc' = "returned"
    /\ UNCHANGED <<client, attempt, error, pause>>

\* RETRYABLE_STATUSES.has(response.status): sleep, continue
AttemptRetryableStatus ==
    /\ InLoop
    /\ \E st \in RETRYABLE_STATUSES : last' = [kind |-> "http", status |-> st]
    /\ requests' = requests + 1
    /\ \E j \in JitterPct : pause' = sleepMs(attempt, j)
    /\ attempt' = attempt + 1
    /\ UNCHANGED <<client, cpc, error>>

\* any other error status: throw new Error(`... (${status}): ${errorBody}`),
\* inside the try block, so the catch block receives it
AttemptOtherStatus ==
    /\ InLoop
    /\ \E st \in ErrorStatuses \ RETRYABLE_STATUSES :
          /\ last' = [kind |-> "http", status |-> st]
          /\ catchBlock([kind |-> "http", status |-> st, body |-> TRUE])
    /\ requests' = requests + 1
    /\ UNCHANGED client

\* fetch() rejects: connection failure, or abort by the 30 s timer
AttemptThrows ==
    /\ InLoop
    /\ \E k \in {"network", "timeout"} :
          /\ last' = [kind |-> k, status |-> 0]
          /\ catchBlock([kind |-> k, status |-> 0, body |-> FALSE])
    /\ requests' = requests + 1
    /\ UNCHANGED client

\* the loop ends: throw new Error('... request failed after retries')
ExhaustRetries ==
    /\ cpc = "loop"
    /\ attempt >= maxRetries(client)
    /\ cpc' = "failed"
    /\ error' = [kind |-> "after_retries", status |-> 0, body |-> FALSE]
    /\ UNCHANGED <<client, attempt, requests, last, pause>>

ClientStep ==
    \/ AttemptOk
    \/ AttemptRetryableStatus
    \/ AttemptOtherStatus
    \/ AttemptThrows
    \/ ExhaustRetries

\* a caller invokes one of the two clients
ClientCall ==
    /\ cpc = "idle"
    /\ \E c \in {"ncbi", "reporter"} : beginCall(c)
    /\ UNCHANGED <<pipeVars, grantVars, otherVars>>

\* the caller has the payload or the error
ClientDone ==
    /\ cpc \in {"returned", "failed"}
    /\ cpc' = "idle"
    /\ UNCHANGED <<client, attempt, requests, last, error, pause>>
    /\ UNCHANGED <<pipeVars, grantVars, otherVars>>

ClientAttemptOk == AttemptOk /\ UNCHANGED <<pipeVars, grantVars, otherVars>>
ClientAttemptRetryableStatus == AttemptRetryableStatus /\ UNCHANGED <<pipeVars, grantVars, otherVars>>
ClientAttemptOtherStatus == AttemptOtherStatus /\ UNCHANGED <<pipeVars, grantVars, otherVars>>
ClientAttemptThrows == AttemptThrows /\ UNCHANGED <<pipeVars, grantVars, otherVars>>
ClientExhaustRetries == ExhaustRetries /\ UNCHANGED <<pipeVars, grantVars, otherVars>>

-----------------------------------------------------------------------------
(* The funding-award script: main() of the NIH RePORTER build.              *)
(* fetchProjectsForPerson reads one page (fewer results than PAGE_LIMIT).   *)

GRANTS == {"g1", "g2"}

InitGrants ==
    /\ gpc = "idle"
    /\ gidx = 1
    /\ gresults = <<>>
    /\ gfailed = {}
    /\ gexit = "none"

\* node scripts/build-grants: parseFaculty, results = []
GStartRun ==
    /\ gpc = "idle"
    /\ gpc' = "running"
    /\ gidx' = 1
    /\ gresults' = <<>>
    /\ gfailed' = {}
    /\ gexit' = "none"
    /\ UNCHANGED <<pipeVars, clientVars, otherVars>>

\* try { fetchProjectsForPerson(person, ...) -> reporterSearch(payload)
GFetch ==
    /\ gpc = "running"
    /\ gidx <= Len(FACULTY)
    /\ cpc = "idle"
    /\ beginCall("reporter")
    /\ gpc' = "fetching"
    /\ UNCHANGED <<gidx, gresults, gfailed, gexit>>
    /\ UNCHANGED <<pipeVars, otherVars>>

GAttemptOk == gpc = "fetching" /\ AttemptOk /\ UNCHANGED <<pipeVars, grantVars, otherVars>>
GAttemptRetryableStatus ==
    gpc = "fetching" /\ AttemptRetryableStatus /\ UNCHANGED <<pipeVars, grantVars, otherVars>>
GAttemptOtherStatus ==
    gpc = "fetching" /\ AttemptOtherStatus /\ UNCHANGED <<pipeVars, grantVars, otherVars>>
GAttemptThrows == gpc = "fetching" /\ AttemptThrows /\ UNCHANGED <<pipeVars, grantVars, otherVars>>
GExhaustRetries == gpc = "fetching" /\ ExhaustRetries /\ UNCHANGED <<pipeVars, grantVars, otherVars>>

\* the payload arrived: filterProjectsByStartDate, mapGrants, results.push; sleep
GPersonDone ==
    /\ gpc = "fetching"
    /\ cpc = "returned"
    /\ \E gs \in SUBSET GRANTS :
          gresults' = Append(gresults, [id |-> FACULTY[gidx], grants |-> gs])
    /\ gidx' = gidx + 1
    /\ gpc' = "running"
    /\ cpc' = "idle"
    /\ UNCHANGED <<gfailed, gexit>>
    /\ UNCHANGED <<client, attempt, requests, last, error, pause>>
    /\ UNCHANGED <<pipeVars, otherVars>>

\* } catch (error) { console.error(...); results.push({ ..., grants: [] }) }; sleep
GPersonFailed ==
    /\ gpc = "fetching"
    /\ cpc = "failed"
    /\ gresults' = Append(gresults, [id |-> FACULTY[gidx], grants |-> {}])
    /\ gfailed' = gfailed \cup {FACULTY[gidx]}
    /\ gidx' = gidx + 1
    /\ gpc' = "running"
    /\ cpc' = "idle"
    /\ UNCHANGED gexit
    /\ UNCHANGED <<client, attempt, requests, last, error, pause>>
    /\ UNCHANGED <<pipeVars, otherVars>>

\* writeFile(OUTPUT_PATH, ...): main() resolves, the process ends with status 0
GWriteOutput ==
    /\ gpc = "running"
    /\ gidx > Len(FACULTY)
    /\ gpc' = "exited"
    /\ gexit' = "ok"
    /\ UNCHANGED <<gidx, gresults, gfailed>>
    /\ UNCHANGED <<pipeVars, clientVars, otherVars>>

-----------------------------------------------------------------------------
(* replaceCoauthors at statement level: db.transaction(() => { delete;       *)
(* insert each name }) run on the store. The statements act on the           *)
(* uncommitted table tx.work; the store's table changes at the commit.       *)

MaxNames == 2
\* the `coauthors` argument: lists with repeated and empty names
CoauthorNames == {"", "Au1", "Au2"}
CoauthorLists == UNION {[1..n -> CoauthorNames] : n \in 0..MaxNames}

NoTx == [stage |-> "none", faculty_id |-> "", pmid |-> 0, names |-> <<>>, i |-> 1,
         work |-> {}, before |-> {}]

InitTx == tx = NoTx

\* transaction(): BEGIN
TxBegin ==
    /\ tx.stage \in {"none", "committed", "rolledback"}
    /\ \E f \in Faculty, p \in PMIDS, names \in CoauthorLists :
          tx' = [stage |-> "delete", faculty_id |-> f, pmid |-> p, names |-> names,
                 i |-> 1, work |-> db.coauthors, before |-> db.coauthors]
    /\ UNCHANGED <<db, txRest>>

\* mutant: the DELETE issued outside the transaction, committed at once
TxDelete_autocommit ==
    /\ tx.stage = "delete"
    /\ tx' = [tx EXCEPT !.stage = "insert",
                        !.work = {r \in @ : ~(r.faculty_id = tx.faculty_id /\ r.pmid = tx.pmid)}]
    /\ db' = [db EXCEPT !.coauthors =
                  {r \in @ : ~(r.faculty_id = tx.faculty_id /\ r.pmid = tx.pmid)}]
    /\ UNCHANGED txRest

\* deleteStmt.run(facultyId, String(pmid))
TxDelete ==
    /\ tx.stage = "delete"
    /\ tx' = [tx EXCEPT !.stage = "insert",
                        !.work = {r \in @ : ~(r.faculty_id = tx.faculty_id /\ r.pmid = tx.pmid)}]
    /\ UNCHANGED <<db, txRest>>

\* one turn of coauthors.forEach: if (name) insertStmt.run(...), INSERT OR IGNORE
TxInsert ==
    /\ tx.stage = "insert"
    /\ tx.i <= Len(tx.names)
    /\ LET name == tx.names[tx.i]
       IN tx' = [tx EXCEPT !.i = @ + 1,
                           !.work = IF name = "" THEN @
                                    ELSE @ \cup {[faculty_id |-> tx.faculty_id,
                                                  pmid |-> tx.pmid, name |-> name]}]
    /\ UNCHANGED <<db, txRest>>

\* the function returns: COMMIT
TxCommit ==
    /\ tx.stage = "insert"
    /\ tx.i > Len(tx.names)
    /\ db' = [db EXCEPT !.coauthors = tx.work]
    /\ tx' = [tx EXCEPT !.stage = "committed"]
    /\ UNCHANGED txRest

\* the process is killed, or a statement throws, inside the transaction: ROLLBACK
TxRollback ==
    /\ tx.stage \in {"delete", "insert"}
    /\ tx' = [tx EXCEPT !.stage = "rolledback"]
    /\ UNCHANGED <<db, txRest>>

-----------------------------------------------------------------------------
(* writeFile(OUTPUT_PATH, JSON.stringify(output)) of main(): the file is      *)
(* opened for writing, which truncates it, the text is written in one or     *)
(* more write calls, and the file is closed. The text is counted in the      *)
(* entries of `faculty` it holds.                                            *)

MaxCount == 2
\* the documents a run can go to write: one entry per researcher of the roster
OutputDocs ==
    [DOMAIN FACULTY -> [count : 0..MaxCount]]

NoDisk == [exists |-> FALSE, faculty |-> <<>>]
NoWrite == [stage |-> "idle", doc |-> <<>>]

InitWrite ==
    /\ disk = NoDisk
    /\ wf = NoWrite

\* main() reaches `await writeFile(OUTPUT_PATH, ...)` with its results
WfCall ==
    /\ wf.stage = "idle"
    /\ \E d \in OutputDocs : wf' = [stage |-> "open", doc |-> d]
    /\ UNCHANGED <<disk, writeRest>>

\* open(path, 'w'): the file is created or truncated
WfOpen ==
    /\ wf.stage = "open"
    /\ disk' = [exists |-> TRUE, faculty |-> <<>>]
    /\ wf' = [wf EXCEPT !.stage = "write"]
    /\ UNCHANGED writeRest

\* write(fd, ...): some of the remaining text reaches the file
WfWrite ==
    /\ wf.stage = "write"
    /\ Len(disk.faculty) < Len(wf.doc)
    /\ \E n \in (Len(disk.faculty) + 1)..Len(wf.doc) :
          disk' = [disk EXCEPT !.faculty = SubSeq(wf.doc, 1, n)]
    /\ UNCHANGED <<wf, writeRest>>

\* close(fd): the promise resolves, main() logs and returns
WfClose ==
    /\ wf.stage = "write"
    /\ Len(disk.faculty) = Len(wf.doc)
    /\ wf' = NoWrite
    /\ UNCHANGED <<disk, writeRest>>

\* the process is killed during the call
WfKill ==
    /\ wf.stage # "idle"
    /\ wf' = NoWrite
    /\ UNCHANGED <<disk, writeRest>>

-----------------------------------------------------------------------------
(* main()'s loop over the roster at the level of its awaited calls:          *)
(* fetchPmids; fetchArticleXml per chunk of 100 with sleep(120);             *)
(* fetchSummaries per chunk of 200; fetchSummaries for curated identifiers   *)
(* without a summary; the store writes; results.push; sleep(350).            *)

\* numbers of identifiers a search returns
PmidCounts == {0, 150}
XmlChunk == 100
SummaryChunk == 200

\* chunk(arr, size).length
chunks(n, size) == (n + size - 1) \div size

NoSeq == [i |-> 1, at |-> "idle", sent |-> FALSE, n |-> 0, k |-> 0,
          inflight |-> {}, log |-> <<>>]

InitSeq == seq = NoSeq

event(kind, what) == [person |-> seq.i, kind |-> kind, what |-> what]

\* mutant: calls that are not awaited
awaiting_never(q) == FALSE

\* `await`: the function does not go on while its request is in flight
awaiting(q) == q.inflight # {}

\* main() enters the loop
SeqStart ==
    /\ seq.at = "idle"
    /\ seq' = [seq EXCEPT !.at = "search"]
    /\ UNCHANGED seqRest

\* the call at the current position issues its request
SeqSend ==
    /\ seq.at \in {"search", "xml", "summaries", "missing"}
    /\ ~seq.sent
    /\ ~awaiting(seq)
    /\ seq.at = "search" \/ seq.k > 0
    /\ seq' = [seq EXCEPT !.sent = TRUE,
                          !.inflight = @ \cup {[person |-> seq.i, what |-> seq.at]},
                          !.log = Append(@, event("request", seq.at))]
    /\ UNCHANGED seqRest

\* a response arrives; the search's response carries its identifiers
SeqReceive ==
    /\ \E x \in seq.inflight, cnt \in PmidCounts :
          seq' = [seq EXCEPT !.inflight = @ \ {x},
                            !.n = IF x.what = "search" /\ x.person = seq.i THEN cnt ELSE @,
                            !.log = Append(@, [person |-> x.person, kind |-> "response",
                                               what |-> x.what])]
    /\ UNCHANGED seqRest

\* the function goes on after its awaited call, to the next call of the body
SeqAdvance ==
    /\ seq.at \in {"search", "xml", "summaries", "missing"}
    /\ seq.sent \/ (seq.at # "search" /\ seq.k = 0)
    /\ ~awaiting(seq)
    /\ \E missing \in 0..1 :
          LET left == IF seq.sent /\ seq.at # "search" THEN seq.k - 1 ELSE seq.k
          IN seq' = IF seq.at = "search"
                    THEN [seq EXCEPT !.at = "xml", !.sent = FALSE,
                                     !.k = chunks(seq.n, XmlChunk)]
                    ELSE IF left > 0
                    THEN [seq EXCEPT !.sent = FALSE, !.k = left]
                    ELSE IF seq.at = "xml"
                    THEN [seq EXCEPT !.at = "summaries", !.sent = FALSE,
                                     !.k = chunks(seq.n, SummaryChunk)]
                    ELSE IF seq.at = "summaries"
                    THEN [seq EXCEPT !.at = "missing", !.sent = FALSE, !.k = missing]
                    ELSE [seq EXCEPT !.at = "persist", !.sent = FALSE, !.k = 0]
    /\ UNCHANGED seqRest

\* upsertPublication, upsertFacultyPublication, replaceCoauthors, the reads, results.push
SeqPersist ==
    /\ seq.at = "persist"
    /\ seq' = [seq EXCEPT !.at = "pause", !.log = Append(@, event("write", "store"))]
    /\ UNCHANGED seqRest

\* await sleep(350); the next researcher of the roster, or the end of the loop
SeqPause ==
    /\ seq.at = "pause"
    /\ seq' = [seq EXCEPT !.i = @ + 1, !.n = 0,
                          !.at = IF seq.i < Len(FACULTY) THEN "search" ELSE "done",
                          !.log = Append(@, event("pause", "sleep"))]
    /\ UNCHANGED seqRest

-----------------------------------------------------------------------------
(* Identity & Affiliation Resolver: author matching.                         *)

RECURSIVE keepChars(_, _)
keepChars(str, allowed) ==
    IF str = <<>> THEN <<>>
    ELSE (IF Head(str) \in allowed THEN <<Head(str)>> ELSE <<>>)
            \o keepChars(Tail(str), allowed)

\* String(value || '').toLowerCase().replace(/[^a-z]/g, '')
normalizeName(value) ==
    keepChars(toLowerCase(value), {LowerCase[i] : i \in DOMAIN LowerCase})

\* a.startsWith(b)
startsWith(a, b) == Len(b) <= Len(a) /\ SubSeq(a, 1, Len(b)) = b

\* str.charAt(0): the first character, or the empty string
charAt0(str) == IF str = <<>> THEN <<>> ELSE <<Head(str)>>

\* str.replace(/-/g, '')
stripHyphens(str) == SelectSeq(str, LAMBDA ch : ch # "-")

\* mutant: only the first name variant is compared
authorMatchesPerson_firstVariant(author, person) ==
    LET authorLast == normalizeName(author.LastName)
        variants == IF Len(person.nameVariants) > 0 THEN person.nameVariants
                    ELSE <<[foreName |-> person.foreName, lastName |-> person.lastName]>>
        authorFore == normalizeName(author.ForeName)
    IN /\ authorLast # <<>>
       /\ authorLast = normalizeName(variants[1].lastName)
       /\ authorFore = normalizeName(variants[1].foreName)

\* authorMatchesPerson; author.orcid is extractOrcid(author)
authorMatchesPerson(author, person) ==
    LET authorOrcid == stripHyphens(author.orcid)
        targetOrcid == stripHyphens(person.orcid)
        authorLast == normalizeName(author.LastName)
        variants == IF Len(person.nameVariants) > 0 THEN person.nameVariants
                    ELSE <<[foreName |-> person.foreName, lastName |-> person.lastName]>>
        authorFore == normalizeName(author.ForeName)
        authorInitial == charAt0(normalizeName(
                            IF author.Initials # <<>> THEN author.Initials
                            ELSE author.ForeName))
        variantMatches(variant) ==
            LET personLast == normalizeName(variant.lastName)
                personFore == normalizeName(variant.foreName)
                personInitial == charAt0(personFore)
            IN IF personLast = <<>> \/ authorLast # personLast THEN FALSE
               ELSE IF /\ authorFore # <<>> /\ personFore # <<>>
                       /\ \/ authorFore = personFore
                          \/ startsWith(authorFore, personFore)
                          \/ startsWith(personFore, authorFore)
               THEN TRUE
               ELSE authorInitial # <<>> /\ personInitial # <<>>
                        /\ authorInitial = personInitial
    IN IF /\ person.orcid # <<>>
          /\ authorOrcid # <<>> /\ targetOrcid # <<>> /\ authorOrcid = targetOrcid
       THEN TRUE
       ELSE IF authorLast = <<>> THEN FALSE
       ELSE \E i \in DOMAIN variants : variantMatches(variants[i])

\* the clauses of buildAuthorClause, before they are joined with OR
buildAuthorClause(nameVariants, orcid, includeInitials) ==
    LET clausesOf(variant) ==
            LET trimmedFirst == trim(variant.foreName)
                trimmedLast == trim(variant.lastName)
            IN IF trimmedLast = <<>> THEN {}
               ELSE (IF trimmedFirst # <<>>
                     THEN {[tag |-> "fau", last |-> trimmedLast, first |-> trimmedFirst]}
                     ELSE {})
                    \cup (IF includeInitials /\ trimmedFirst # <<>>
                          THEN {[tag |-> "au", last |-> trimmedLast,
                                 first |-> <<trimmedFirst[1]>>]}
                          ELSE {})
    IN UNION {clausesOf(nameVariants[i]) : i \in DOMAIN nameVariants}
        \cup (IF orcid # <<>> THEN {[tag |-> "auid", last |-> <<>>, first |-> orcid]} ELSE {})

\* the author clause of buildTerm
buildTerm(person, ALLOW_INITIALS) ==
    LET includeInitials == ALLOW_INITIALS /\ person.orcid = <<>>
        resolvedVariants == IF Len(person.nameVariants) > 0 THEN person.nameVariants
                            ELSE <<[foreName |-> person.foreName,
                                    lastName |-> person.lastName]>>
    IN buildAuthorClause(resolvedVariants, person.orcid, includeInitials)

\* the inputs: names as PubMed and the roster spell them
LastNames == {<<>>, <<"S", "m", "i", "t", "h">>, <<"S", "m", "y", "t", "h">>}
ForeNames == {<<>>, <<"J">>, <<"J", "a", "n", "e">>, <<"J", "a", "n", "e", "t", " ", "A", ".">>, <<"J", "o", "h", "n">>, <<" ", "j", "a", "n", "e">>}
InitialsOf == {<<>>, <<"J">>, <<"R">>}
Orcids == {<<>>, <<"0", "0", "0", "0", "-", "0", "0", "0", "1">>, <<"0", "0", "0", "0", "-", "0", "0", "0", "2">>}

MaxVariants == 2
VariantPool ==
    {[foreName |-> <<"J">>, lastName |-> <<"S", "m", "i", "t", "h">>],
     [foreName |-> <<"J", "a", "n", "e">>, lastName |-> <<"S", "m", "i", "t", "h">>],
     [foreName |-> <<"J", "a", "n", "e">>, lastName |-> <<"S", "m", "y", "t", "h">>]}
VariantLists == UNION {[1..n -> VariantPool] : n \in 0..MaxVariants}

AuthorEntries ==
    [LastName : LastNames, ForeName : ForeNames, Initials : InitialsOf, orcid : Orcids]
Persons ==
    [foreName : {<<"J", "a", "n", "e">>}, lastName : {<<"S", "m", "i", "t", "h">>}, nameVariants : VariantLists,
     orcid : {<<>>, <<"0", "0", "0", "0", "0", "0", "0", "1">>}]

NoRet == [stage |-> "none", matched |-> FALSE, clauses |-> {}]

InitMatch ==
    /\ arg \in [author : AuthorEntries, person : Persons, ALLOW_INITIALS : BOOLEAN]
    /\ ret = NoRet

\* authorMatchesPerson(author, person)
MatchAuthor ==
    /\ ret.stage = "none"
    /\ ret' = [stage |-> "matched",
               matched |-> authorMatchesPerson(arg.author, arg.person),
               clauses |-> {}]
    /\ UNCHANGED <<arg, fnRest>>

\* buildTerm for the researcher, then the match of the author entry
BuildTermAndMatch ==
    /\ ret.stage = "none"
    /\ ret' = [stage |-> "searched",
               matched |-> authorMatchesPerson(arg.author, arg.person),
               clauses |-> buildTerm(arg.person, arg.ALLOW_INITIALS)]
    /\ UNCHANGED <<arg, fnRest>>

-----------------------------------------------------------------------------
(* Identity & Affiliation Resolver: one article of                           *)
(* filterPmidsByAuthorAffiliation (the body of articles.forEach).            *)

\* String(value || '').toLowerCase().replace(/[^a-z0-9]/g, '')
normalizeAffiliation(value) ==
    keepChars(toLowerCase(value), {LowerCase[i] : i \in DOMAIN LowerCase} \cup Digits)

\* aff.includes(term)
includes(aff, term) ==
    \E i \in 0..(Len(aff) - Len(term)) : SubSeq(aff, i + 1, i + Len(term)) = term

\* extractAffiliations: the author's affiliation texts, trimmed, the empty ones dropped
extractAffiliations(author) ==
    SelectSeq([i \in DOMAIN author.affiliations |-> trim(author.affiliations[i])],
              LAMBDA text : text # <<>>)

\* formatAuthorName for an author with a family name
formatAuthorName(author) ==
    LET lastName == trim(author.LastName)
        foreName == trim(author.ForeName)
        initials == trim(author.Initials)
    IN IF foreName # <<>> /\ lastName # <<>> THEN foreName \o <<" ">> \o lastName
       ELSE IF initials # <<>> /\ lastName # <<>> THEN initials \o <<" ">> \o lastName
       ELSE lastName

\* authors.forEach: the first matching entry, and the names of the entries that
\* do not match; matchedIndex counts from 0, -1 when no entry matches
RECURSIVE scanAuthors(_, _, _, _, _)
scanAuthors(authors, person, index, matchedIndex, coauthors) ==
    IF index >= Len(authors)
    THEN [matchedIndex |-> matchedIndex, coauthors |-> coauthors]
    ELSE LET author == authors[index + 1]
         IN IF authorMatchesPerson(author, person)
            THEN scanAuthors(authors, person, index + 1,
                             IF matchedIndex < 0 THEN index ELSE matchedIndex, coauthors)
            ELSE scanAuthors(authors, person, index + 1, matchedIndex,
                             IF formatAuthorName(author) # <<>>
                             THEN Append(coauthors, formatAuthorName(author))
                             ELSE coauthors)

NoAuthorship == [null |-> TRUE, position |-> 0, total |-> 0, isFirst |-> FALSE,
                 isLast |-> FALSE]

\* mutant: the last position taken as `total`
authorshipFact_offByOne(matchedIndex, totalAuthors) ==
    [null |-> FALSE, position |-> matchedIndex, total |-> totalAuthors,
     isFirst |-> matchedIndex = 0,
     isLast |-> totalAuthors > 0 /\ matchedIndex = totalAuthors]

\* authorshipByPmid.set(pmid, { position, total, isFirst, isLast })
authorshipFact(matchedIndex, totalAuthors) ==
    [null |-> FALSE, position |-> matchedIndex, total |-> totalAuthors,
     isFirst |-> matchedIndex = 0,
     isLast |-> totalAuthors > 0 /\ matchedIndex = totalAuthors - 1]

\* mutant: the affiliations of every author of the record are tested
affiliationsToTest_anyAuthor(authors, matchedIndex) ==
    IF authors = <<>> THEN <<>>
    ELSE LET RECURSIVE all(_)
             all(i) == IF i > Len(authors) THEN <<>>
                       ELSE extractAffiliations(authors[i]) \o all(i + 1)
         IN all(1)

\* const affiliations = extractAffiliations(matchedAuthor)
affiliationsToTest(authors, matchedIndex) ==
    extractAffiliations(authors[matchedIndex + 1])

\* allowedTerms mapped with normalizeAffiliation, the empty ones dropped
normalizedAllowedOf(affiliationTerms, DEFAULT_AFFILIATION) ==
    LET allowedTerms == IF Len(affiliationTerms) > 0 THEN affiliationTerms
                        ELSE <<DEFAULT_AFFILIATION>>
    IN SelectSeq([i \in DOMAIN allowedTerms |-> normalizeAffiliation(allowedTerms[i])],
                 LAMBDA term : term # <<>>)

\* the body of articles.forEach for one article with a pmid
resolveArticle(authors, person, normalizedAllowed) ==
    LET scan == scanAuthors(authors, person, 0, -1, <<>>)
        matchedIndex == scan.matchedIndex
        authorship == IF matchedIndex >= 0 THEN authorshipFact(matchedIndex, Len(authors))
                      ELSE NoAuthorship
        affiliations == IF matchedIndex >= 0 THEN affiliationsToTest(authors, matchedIndex)
                        ELSE <<>>
        matches == \E i \in DOMAIN affiliations, j \in DOMAIN normalizedAllowed :
                      includes(normalizeAffiliation(affiliations[i]), normalizedAllowed[j])
    IN [stage |-> "resolved",
        kept |-> IF matchedIndex < 0 THEN FALSE
                 ELSE IF Len(affiliations) = 0 THEN TRUE
                 ELSE matches,
        missingAffiliation |-> matchedIndex >= 0 /\ Len(affiliations) = 0,
        coauthors |-> scan.coauthors,
        authorship |-> authorship]

MaxAuthors == 5

UniversityOfMinnesota ==
    <<"U", "n", "i", "v", "e", "r", "s", "i", "t", "y", " ", "o", "f", " ", 
      "M", "i", "n", "n", "e", "s", "o", "t", "a">>
MinnesotaMedicine ==
    <<"U", "n", "i", "v", "e", "r", "s", "i", "t", "y", " ", "o", "f", " ", 
      "M", "i", "n", "n", "e", "s", "o", "t", "a", " ", "D", "e", "p", "t", 
      " ", "o", "f", " ", "M", "e", "d", "i", "c", "i", "n", "e">>
UniversityOfWisconsin ==
    <<"U", "n", "i", "v", "e", "r", "s", "i", "t", "y", " ", "o", "f", " ", 
      "W", "i", "s", "c", "o", "n", "s", "i", "n">>

\* author entries of the article XML: the researcher "Larson EW" with several
\* affiliations, a namesake "Larson E" and another author
ArticleAuthors ==
    {[LastName |-> <<"L", "a", "r", "s", "o", "n">>, ForeName |-> <<"E", "r", "i", "c", " ", "W">>,
      Initials |-> <<"E", "W">>, orcid |-> <<>>, affiliations |-> a] :
        a \in {<<>>, <<MinnesotaMedicine>>, <<UniversityOfWisconsin>>}}
    \cup {[LastName |-> <<"L", "a", "r", "s", "o", "n">>, ForeName |-> <<"E", "m", "m", "a">>,
           Initials |-> <<"E">>, orcid |-> <<>>, affiliations |-> <<<<>>>>],
          [LastName |-> <<"D", "o", "e">>, ForeName |-> <<"J", "o">>, Initials |-> <<"J">>, orcid |-> <<>>,
           affiliations |-> <<UniversityOfWisconsin, UniversityOfMinnesota>>]}
AuthorLists == UNION {[1..n -> ArticleAuthors] : n \in 0..MaxAuthors}

ResolverPersons ==
    {[foreName |-> <<"E", "r", "i", "c">>, lastName |-> <<"L", "a", "r", "s", "o", "n">>, nameVariants |-> <<>>, orcid |-> <<>>]}
\* affiliationTerms of buildTerm; the empty list falls back to DEFAULT_AFFILIATION
AffiliationTerms == {<<>>, <<UniversityOfMinnesota>>}

NoResolved == [stage |-> "none", kept |-> FALSE, missingAffiliation |-> FALSE,
               coauthors |-> <<>>, authorship |-> NoAuthorship]

InitResolve ==
    /\ arg \in [authors : AuthorLists, person : ResolverPersons,
                 affiliationTerms : AffiliationTerms]
    /\ ret = NoResolved

\* the resolver handles the article
ResolveArticle ==
    /\ ret.stage = "none"
    /\ ret' = resolveArticle(arg.authors, arg.person,
                  normalizedAllowedOf(arg.affiliationTerms, UniversityOfMinnesota))
    /\ UNCHANGED <<arg, fnRest>>

-----------------------------------------------------------------------------
(* Signal Aggregator: keywords of a title *)

STOPWORDS ==
    {<<"a">>,
     <<"a", "n">>,
     <<"a", "n", "d">>,
     <<"a", "r", "e">>,
     <<"a", "s">>,
     <<"a", "t">>,
     <<"b", "e">>,
     <<"b", "e", "t", "w", "e", "e", "n">>,
     <<"b", "y">>,
     <<"c", "a", "s", "e">>,
     <<"c", "o", "n", "t", "r", "o", "l">>,
     <<"f", "o", "r">>,
     <<"f", "r", "o", "m">>,
     <<"i", "n">>,
     <<"i", "n", "t", "o">>,
     <<"i", "s">>,
     <<"l", "o", "n", "g">>,
     <<"o", "f">>,
     <<"o", "n">>,
     <<"o", "u", "t", "c", "o", "m", "e", "s">>,
     <<"p", "a", "t", "i", "e", "n", "t", "s">>,
     <<"r", "e", "p", "o", "r", "t">>,
     <<"r", "e", "v", "i", "e", "w">>,
     <<"s", "t", "u", "d", "y">>,
     <<"s", "t", "u", "d", "i", "e", "s">>,
     <<"t", "h", "e">>,
     <<"t", "o">>,
     <<"w", "i", "t", "h">>,
     <<"w", "i", "t", "h", "o", "u", "t">>}

\* mutant: tokens of 3 characters are dropped as well
extractKeywords_longer(value) ==
    LET lowered == toLowerCase(value)
        spaced == [i \in DOMAIN lowered |->
                      IF lowered[i] \in {LowerCase[k] : k \in DOMAIN LowerCase} \cup Digits
                      THEN lowered[i] ELSE " "]
    IN SelectSeq(splitSpaces(spaced, 1, <<>>, <<>>),
                 LAMBDA token : Len(token) > 3 /\ token \notin STOPWORDS)

\* String(value || '').toLowerCase().replace(/[^a-z0-9]/g, ' ').split(/\s+/).filter(...)
extractKeywords(value) ==
    LET lowered == toLowerCase(value)
        spaced == [i \in DOMAIN lowered |->
                      IF lowered[i] \in {LowerCase[k] : k \in DOMAIN LowerCase} \cup Digits
                      THEN lowered[i] ELSE " "]
    IN SelectSeq(splitSpaces(spaced, 1, <<>>, <<>>),
                 LAMBDA token : Len(token) >= 3 /\ token \notin STOPWORDS)

MaxWords == 3

\* words of titles
TitleWords ==
    {<<"O", "u", "t", "c", "o", "m", "e", "s">>,
     <<"o", "f">>,
     <<"L", "o", "n", "g", "-", "T", "e", "r", "m">>,
     <<"F", "o", "l", "l", "o", "w", "-", "U", "p">>,
     <<"S", "t", "u", "d", "i", "e", "s">>,
     <<"i", "n">>,
     <<"D", "i", "a", "b", "e", "t", "e", "s">>,
     <<"H", "b", "A", "1", "c">>,
     <<"&">>,
     <<"R", "N", "A">>}

RECURSIVE joinWords(_)
joinWords(ws) ==
    IF ws = <<>> THEN <<>>
    ELSE IF Len(ws) = 1 THEN ws[1]
    ELSE ws[1] \o <<" ">> \o joinWords(Tail(ws))

\* "Outcomes of Long-Term Follow-Up Studies in Diabetes"
ExampleTitle ==
    joinWords(<<<<"O", "u", "t", "c", "o", "m", "e", "s">>, 
              <<"o", "f">>, 
              <<"L", "o", "n", "g", "-", "T", "e", "r", "m">>, 
              <<"F", "o", "l", "l", "o", "w", "-", "U", "p">>, 
              <<"S", "t", "u", "d", "i", "e", "s">>, 
              <<"i", "n">>, 
              <<"D", "i", "a", "b", "e", "t", "e", "s">>>>)

\* pub.title: up to MaxWords words separated by one space, and the example
Titles ==
    {joinWords(ws) : ws \in UNION {[1..n -> TitleWords] : n \in 0..MaxWords}}
        \cup {ExampleTitle}

NoKeywords == [stage |-> "none", keywords |-> <<>>]

InitTitle ==
    /\ arg \in [title : Titles]
    /\ ret = NoKeywords

\* extractKeywords(pub.title)
ExtractKeywords ==
    /\ ret.stage = "none"
    /\ ret' = [stage |-> "extracted", keywords |-> extractKeywords(arg.title)]
    /\ UNCHANGED <<arg, fnRest>>

-----------------------------------------------------------------------------
(* Signal Aggregator: the ranked lists of buildSignals *)

\* String(value || '').toLowerCase().replace(/[^a-z0-9]/g, '')
normalizeSignalKey(value) ==
    keepChars(toLowerCase(value), {LowerCase[i] : i \in DOMAIN LowerCase} \cup Digits)

\* the three tallies of buildSignals: what is counted, under which key, how many
\* entries are listed
RECURSIVE flatMapKeywords(_)
flatMapKeywords(titles) ==
    IF titles = <<>> THEN <<>>
    ELSE extractKeywords(Head(titles)) \o flatMapKeywords(Tail(titles))

tallied(kind, values) ==
    IF kind = "topKeywords" THEN flatMapKeywords(values) ELSE values

normalizeOf(kind, value) ==
    CASE kind = "topJournals" -> normalizeSignalKey(value)
      [] kind = "topKeywords" -> value
      [] kind = "topCoauthors" -> normalizeName(value)

limitOf(kind) == IF kind = "topJournals" THEN 10 ELSE 12

\* mutant: the label of a key is the last value seen
RECURSIVE tallyValues_lastLabel(_, _, _)
tallyValues_lastLabel(values, kind, tally) ==
    IF values = <<>> THEN tally
    ELSE LET value == Head(values)
             normalized == normalizeOf(kind, value)
         IN IF value = <<>> \/ normalized = <<>>
            THEN tallyValues_lastLabel(Tail(values), kind, tally)
            ELSE IF \E i \in DOMAIN tally : tally[i].key = normalized
            THEN tallyValues_lastLabel(Tail(values), kind,
                    [i \in DOMAIN tally |->
                        IF tally[i].key = normalized
                        THEN [tally[i] EXCEPT !.count = @ + 1, !.label = value]
                        ELSE tally[i]])
            ELSE tallyValues_lastLabel(Tail(values), kind,
                    Append(tally, [key |-> normalized, count |-> 1, label |-> value]))

\* tallyValues: the Maps `counts` and `labels`, in insertion order of their keys
RECURSIVE tallyValues(_, _, _)
tallyValues(values, kind, tally) ==
    IF values = <<>> THEN tally
    ELSE LET value == Head(values)
             normalized == normalizeOf(kind, value)
         IN IF value = <<>> \/ normalized = <<>>
            THEN tallyValues(Tail(values), kind, tally)
            ELSE IF \E i \in DOMAIN tally : tally[i].key = normalized
            THEN tallyValues(Tail(values), kind,
                    [i \in DOMAIN tally |->
                        IF tally[i].key = normalized
                        THEN [tally[i] EXCEPT !.count = @ + 1]
                        ELSE tally[i]])
            ELSE tallyValues(Tail(values), kind,
                    Append(tally, [key |-> normalized, count |-> 1, label |-> value]))

\* the position of a character in the alphabet, of a digit among the digits
letterIndex(ch) ==
    LET lower == lowerChar(ch)
    IN CHOOSE i \in DOMAIN LowerCase : LowerCase[i] = lower

\* the collation of String.prototype.localeCompare, first level: white space,
\* then punctuation, then digits, then letters whatever their case
primaryWeight(ch) ==
    CASE ch = " " -> 0
      [] ch = "-" -> 1
      [] ch = "." -> 2
      [] ch \in Digits -> 3 + digitIndex(ch)
      [] OTHER -> 13 + letterIndex(ch)

\* the order of two sequences of numbers: -1, 0 or 1
RECURSIVE compareWeights(_, _)
compareWeights(a, b) ==
    IF a = <<>> /\ b = <<>> THEN 0
    ELSE IF a = <<>> THEN -1
    ELSE IF b = <<>> THEN 1
    ELSE IF Head(a) < Head(b) THEN -1
    ELSE IF Head(a) > Head(b) THEN 1
    ELSE compareWeights(Tail(a), Tail(b))

\* a.localeCompare(b): the letters decide; strings that differ in case only are
\* ordered by the first difference, the lowercase letter first
localeCompare(a, b) ==
    LET first == compareWeights([i \in DOMAIN a |-> primaryWeight(a[i])],
                                [i \in DOMAIN b |-> primaryWeight(b[i])])
    IN IF first # 0 THEN first
       ELSE IF a = b THEN 0
       ELSE LET i == CHOOSE k \in DOMAIN a : a[k] # b[k] /\ \A j \in 1..(k - 1) : a[j] = b[j]
            IN IF lowerChar(a[i]) = a[i] THEN -1 ELSE 1

\* the comparator of topList's sort, on two entries of the tally
compareEntries(a, b) ==
    LET countDiff == b.count - a.count
    IN IF countDiff # 0 THEN countDiff ELSE localeCompare(a.label, b.label)

\* Array.prototype.sort with that comparator (a stable sort): each entry goes
\* behind the entries that do not come after it
RECURSIVE sortEntries(_)
sortEntries(entries) ==
    IF entries = <<>> THEN <<>>
    ELSE LET n == Len(entries)
             sorted == sortEntries(SubSeq(entries, 1, n - 1))
             entry == entries[n]
             ahead == Cardinality({i \in DOMAIN sorted : compareEntries(sorted[i], entry) <= 0})
         IN SubSeq(sorted, 1, ahead) \o <<entry>> \o SubSeq(sorted, ahead + 1, n - 1)

\* mutant: the list without .slice(0, limit)
topList_unlimited(tally, limit) ==
    LET sorted == sortEntries(tally)
    IN [i \in DOMAIN sorted |-> [name |-> sorted[i].label, count |-> sorted[i].count]]

\* topList(counts, labels, limit)
topList(tally, limit) ==
    LET sorted == sortEntries(tally)
        sliced == SubSeq(sorted, 1, IF Len(sorted) < limit THEN Len(sorted) ELSE limit)
    IN [i \in DOMAIN sliced |-> [name |-> sliced[i].label, count |-> sliced[i].count]]

MaxExtra == 3

\* journals (titles, names) of a researcher's records: eleven different ones
BaseValues ==
    <<<<"C", "e", "l", "l">>,
      <<"G", "u", "t">>,
      <<"B", "M", "J">>,
      <<"J", "A", "M", "A">>,
      <<"P", "a", "i", "n">>,
      <<"T", "h", "o", "r", "a", "x">>,
      <<"C", "h", "e", "s", "t">>,
      <<"B", "r", "a", "i", "n">>,
      <<"B", "l", "o", "o", "d">>,
      <<"H", "e", "a", "r", "t">>,
      <<"L", "a", "n", "c", "e", "t">>>>
\* further values: other spellings of one of them, two more, one without letters
ExtraValues ==
    {<<"j", "a", "m", "a">>,
     <<"J", ".", "A", ".", "M", ".", "A", ".">>,
     <<"e", "L", "i", "f", "e">>,
     <<"m", "B", "i", "o">>,
     <<"-", "-">>}
SignalValues ==
    {pre \o BaseValues : pre \in UNION {[1..n -> ExtraValues] : n \in 0..MaxExtra}}
ListKinds == {"topJournals", "topKeywords", "topCoauthors"}

NoList == [stage |-> "none", list |-> <<>>]

InitValues ==
    /\ arg \in [kind : ListKinds, values : SignalValues]
    /\ ret = NoList

\* one of topJournals, topKeywords, topCoauthors of buildSignals
BuildTopList ==
    /\ ret.stage = "none"
    /\ ret' = [stage |-> "ranked",
               list |-> topList(tallyValues(tallied(arg.kind, arg.values), arg.kind, <<>>),
                                limitOf(arg.kind))]
    /\ UNCHANGED <<arg, fnRest>>

InitFn ==
    /\ arg = [author |-> [LastName |-> <<>>, ForeName |-> <<>>, Initials |-> <<>>,
                          orcid |-> <<>>],
              person |-> [foreName |-> <<>>, lastName |-> <<>>, nameVariants |-> <<>>,
                          orcid |-> <<>>],
              ALLOW_INITIALS |-> TRUE]
    /\ ret = NoRet

InitOtherVars ==
    /\ InitTx
    /\ InitWrite
    /\ InitSeq
    /\ InitFn

-----------------------------------------------------------------------------
(* Specifications *)

vars == <<pipeVars, clientVars, grantVars, otherVars>>

Init ==
    /\ InitPipeline
    /\ legacy \in LegacyFiles
    /\ InitClient
    /\ InitGrants
    /\ InitOtherVars

Next ==
    \/ StartRun
    \/ ProcessPerson
    \/ ProcessPersonFails
    \/ WriteOutput
    \/ OperatorUpsert

\* the publications script, its store and the operator
Spec == Init /\ [][Next]_vars

InitOther ==
    /\ InitPipeline
    /\ legacy = NoFile
    /\ InitClient
    /\ InitGrants
    /\ InitOtherVars

NextClient ==
    \/ ClientCall
    \/ ClientAttemptOk
    \/ ClientAttemptRetryableStatus
    \/ ClientAttemptOtherStatus
    \/ ClientAttemptThrows
    \/ ClientExhaustRetries
    \/ ClientDone

\* the network client alone, called any number of times
SpecClient == InitOther /\ [][NextClient]_vars

\* an iteration of the client's loop, or its exit
ClientLoopStep ==
    \/ ClientAttemptOk
    \/ ClientAttemptRetryableStatus
    \/ ClientAttemptOtherStatus
    \/ ClientAttemptThrows
    \/ ClientExhaustRetries

\* calls of the two clients; every fetch() settles (the 30 s abort timer) and
\* every sleep ends, so a call in its loop takes its next step
SpecClientFair == InitOther /\ [][NextClient]_vars /\ WF_vars(ClientLoopStep)

NextGrants ==
    \/ GStartRun
    \/ GFetch
    \/ GAttemptOk
    \/ GAttemptRetryableStatus
    \/ GAttemptOtherStatus
    \/ GAttemptThrows
    \/ GExhaustRetries
    \/ GPersonDone
    \/ GPersonFailed
    \/ GWriteOutput

\* one run of the funding-award script over its client
SpecGrants == InitOther /\ [][NextGrants]_vars

NextTx ==
    \/ TxBegin
    \/ TxDelete
    \/ TxInsert
    \/ TxCommit
    \/ TxRollback

\* calls of replaceCoauthors on the store, one statement at a time
SpecTx == InitOther /\ [][NextTx]_vars

NextWrite ==
    \/ WfCall
    \/ WfOpen
    \/ WfWrite
    \/ WfClose
    \/ WfKill

InitResolver ==
    /\ InitPipeline
    /\ legacy = NoFile
    /\ InitClient
    /\ InitGrants
    /\ InitTx
    /\ InitWrite
    /\ InitSeq
    /\ InitMatch

NextMatch ==
    \/ MatchAuthor
    \/ BuildTermAndMatch

\* authorMatchesPerson and buildTerm on every author entry and researcher
SpecMatch == InitResolver /\ [][NextMatch]_vars

InitArticle ==
    /\ InitPipeline
    /\ legacy = NoFile
    /\ InitClient
    /\ InitGrants
    /\ InitTx
    /\ InitWrite
    /\ InitSeq
    /\ InitResolve

NextResolve ==
    \/ ResolveArticle

\* the resolver on every article of up to MaxAuthors authors
SpecResolve == InitArticle /\ [][NextResolve]_vars

InitKeywords ==
    /\ InitPipeline
    /\ legacy = NoFile
    /\ InitClient
    /\ InitGrants
    /\ InitTx
    /\ InitWrite
    /\ InitSeq
    /\ InitTitle

NextKeywords ==
    \/ ExtractKeywords

\* extractKeywords on every title of up to MaxWords words
SpecKeywords == InitKeywords /\ [][NextKeywords]_vars

InitSignals ==
    /\ InitPipeline
    /\ legacy = NoFile
    /\ InitClient
    /\ InitGrants
    /\ InitTx
    /\ InitWrite
    /\ InitSeq
    /\ InitValues

NextSignals ==
    \/ BuildTopList

\* the ranked lists of buildSignals on every list of values
SpecSignals == InitSignals /\ [][NextSignals]_vars

NextKill ==
    \/ Next
    \/ Kill

\* the publications script with runs that are killed, no data/curation.json
SpecKill == InitOther /\ [][NextKill]_vars

NextSeq ==
    \/ SeqStart
    \/ SeqSend
    \/ SeqReceive
    \/ SeqAdvance
    \/ SeqPersist
    \/ SeqPause

\* one run of main()'s loop, call by call
SpecSeq == InitOther /\ [][NextSeq]_vars

\* runs that reach writeFile, and kills during it
SpecWrite == InitOther /\ [][NextWrite]_vars


-----------------------------------------------------------------------------
(* A whole run as a function of the store: seed, then every researcher in   *)
(* roster order with the provider answering pf[f], then the document.       *)

RECURSIVE runFrom(_, _, _, _, _)
runFrom(d, i, pf, t, acc) ==
    IF i > Len(FACULTY) THEN [db |-> d, faculty |-> acc]
    ELSE LET c == Cycle(d, FACULTY[i], pf[FACULTY[i]], t)
         IN runFrom(c.db, i + 1, pf, t, Append(acc, c.result))

Run(d, file, pf, t) ==
    runFrom([d EXCEPT !.curation = seedCurationFromJson(d.curation, file)], 1, pf, t, <<>>)

\* a run killed in the cycle of the i-th researcher after k store statements
RunKilled(d, file, pf, t, i, k) ==
    LET seeded == [d EXCEPT !.curation = seedCurationFromJson(d.curation, file)]
        RECURSIVE upTo(_, _)
        upTo(dd, j) == IF j >= i THEN dd
                       ELSE upTo(Cycle(dd, FACULTY[j], pf[FACULTY[j]], t).db, j + 1)
    IN cycleKilled(upTo(seeded, 1), FACULTY[i], pf[FACULTY[i]], t, k)

-----------------------------------------------------------------------------
(* Helpers of the claims *)

HasVerdict(f, p, v) ==
    \E c \in db.curation : c.faculty_id = f /\ c.pmid = p /\ c.verdict = v

Associated(f, p) ==
    \E a \in db.faculty_publications : a.faculty_id = f /\ a.pmid = p

OutputIds(entry) == {entry.publications[j].id : j \in DOMAIN entry.publications}

\* the provider gives one account of a record to every researcher of a run
ConsistentProvider(pf) ==
    \A f \in Faculty, g \in Faculty, p \in PMIDS :
        /\ pf[f][p].summary = pf[g][p].summary
        /\ (pf[f][p].inSearch /\ pf[g][p].inSearch) => pf[f][p].xdate = pf[g][p].xdate
        /\ (pf[f][p].xdate = NoDate /\ pf[g][p].xdate = NoDate)
              => pf[f][p].sdate = pf[g][p].sdate

-----------------------------------------------------------------------------
(* C1: the publications written for a researcher f never contain a record   *)
(* with a false_positive verdict for f at the time f is processed, also     *)
(* when the resolver accepts it and an association row already exists.      *)
C1_FalsePositiveExcluded ==
    \A i \in DOMAIN results :
        \A p \in OutputIds(results[i]) :
            ~HasVerdict(results[i].id, p, "false_positive")

\* f was just processed; the resolver accepted 101, (f, 101) was associated by
\* an earlier run, the verdict is false_positive, and 101 is not in f's output
C1_Witness ==
    /\ pc = "running" /\ cycle.person # "none"
    /\ cycle.resp[101].inSearch /\ cycle.resp[101].summary
    /\ cycle.resp[101].match = "ok"
    /\ HasVerdict(cycle.person, 101, "false_positive")
    /\ \E a \in db.faculty_publications :
          a.faculty_id = cycle.person /\ a.pmid = 101 /\ a.first_seen_at < now
    /\ results[Len(results)].id = cycle.person
    /\ 101 \notin OutputIds(results[Len(results)])

(* C2: a true_positive record whose summary the provider returns while f    *)
(* is processed is associated with f and in f's output after the cycle,     *)
(* whatever the resolver and the date window say.                           *)
C2_TruePositiveForced ==
    cycle.person # "none" =>
        \A p \in PMIDS :
            (HasVerdict(cycle.person, p, "true_positive") /\ cycle.resp[p].summary)
                => /\ Associated(cycle.person, p)
                   /\ p \in OutputIds(results[Len(results)])

\* the search does not return 101 and its date is before the window
C2_Witness ==
    /\ cycle.person # "none"
    /\ HasVerdict(cycle.person, 101, "true_positive")
    /\ cycle.resp[101].summary /\ ~cycle.resp[101].inSearch
    /\ cycle.resp[101].sdate < personStartDate
    /\ Associated(cycle.person, 101)
    /\ 101 \in OutputIds(results[Len(results)])

\* further cases of C2: no author matches; the affiliation test rejects
C2_WitnessNoMatch ==
    /\ cycle.person # "none"
    /\ HasVerdict(cycle.person, 101, "true_positive")
    /\ cycle.resp[101].summary /\ cycle.resp[101].inSearch
    /\ cycle.resp[101].match = "none"
    /\ 101 \in OutputIds(results[Len(results)])

C2_WitnessAffiliation ==
    /\ cycle.person # "none"
    /\ HasVerdict(cycle.person, 101, "true_positive")
    /\ cycle.resp[101].summary /\ cycle.resp[101].inSearch
    /\ cycle.resp[101].match = "affbad"
    /\ 101 \in OutputIds(results[Len(results)])

(* C3: from every store content a run can start from, two runs in           *)
(* succession with unchanged roster, configuration, verdicts and provider   *)
(* answers produce the same document.                                       *)
C3_Idempotent ==
    pc = "idle" =>
        \A pf \in [Faculty -> Resp] :
            ConsistentProvider(pf) =>
                LET first == Run(db, legacy, pf, now + 1)
                    second == Run(first.db, legacy, pf, now + 2)
                IN first.faculty = second.faculty

(* C4: once the curation table holds a row, the seeding step of a later     *)
(* run inserts, changes or removes no curation row.                         *)
C4_SeedOnce ==
    [][(pc = "idle" /\ pc' = "running" /\ db.curation # {})
          => db'.curation = db.curation]_vars

\* a second run has started with the legacy file present and a verdict that
\* is not the file's
C4_Witness ==
    /\ legacy.exists /\ now = 2 /\ pc = "running"
    /\ db.curation # {}
    /\ db.curation # seedCurationFromJson({}, legacy)

(* C5: a terminal failure of the provider client for one researcher does    *)
(* not abort the run: the document is written with every researcher of the  *)
(* roster and the failed one has an empty result.                           *)
C5_FailureDoesNotAbort ==
    (pc = "idle" /\ failed # {}) =>
        /\ out.current
        /\ Len(out.faculty) = Len(FACULTY)
        /\ \A f \in failed : \E i \in DOMAIN out.faculty :
              out.faculty[i].id = f /\ out.faculty[i].publications = <<>>

(* C9: an association row keeps its first_seen_at; a later association of   *)
(* the pair changes only last_seen_at, and first_seen_at <= last_seen_at.   *)
C9_FirstSeenKept ==
    /\ [](\A a \in db.faculty_publications : a.first_seen_at <= a.last_seen_at)
    /\ [][\A a \in db.faculty_publications :
            \E b \in db'.faculty_publications :
                /\ b.faculty_id = a.faculty_id /\ b.pmid = a.pmid
                /\ b.first_seen_at = a.first_seen_at
                /\ b.last_seen_at >= a.last_seen_at]_vars

\* a pair associated by one run and again by a later run
C9_Witness ==
    \E a \in db.faculty_publications : a.first_seen_at < a.last_seen_at

(* C10: at most one publications row per identifier; no run deletes a       *)
(* publications row or an association row.                                  *)
C10_OneRowNoDelete ==
    /\ [](\A x \in db.publications, y \in db.publications : x.pmid = y.pmid => x = y)
    /\ [][/\ {x.pmid : x \in db.publications} \subseteq {x.pmid : x \in db'.publications}
          /\ {<<a.faculty_id, a.pmid>> : a \in db.faculty_publications}
                \subseteq {<<a.faculty_id, a.pmid>> : a \in db'.faculty_publications}]_vars

\* one row for 101, linked to both researchers, rewritten with another year
C10_Witness ==
    /\ Cardinality({x \in db.publications : x.pmid = 101}) = 1
    /\ \A f \in Faculty : Associated(f, 101)
    /\ now = 2 /\ \E x \in db.publications : x.year = 2022

-----------------------------------------------------------------------------
Transient(o) ==
    \/ o.kind \in {"network", "timeout"}
    \/ (o.kind = "http" /\ o.status \in RETRYABLE_STATUSES)

(* C6: a run ends with a non-zero exit status if and only if the            *)
(* processing of at least one researcher failed during the run.             *)
C6_ExitStatusReflectsFailure ==
    /\ (pc = "idle" /\ exitStatus # "none") => (exitStatus = "fail" <=> failed # {})
    /\ (gpc = "exited") => (gexit = "fail" <=> gfailed # {})

(* C7: an attempt that ends in a connection failure, a timeout or a         *)
(* retryable status is followed by another attempt whenever fewer than      *)
(* maxRetries attempts were made; the client fails on transient conditions  *)
(* only after maxRetries attempts (8 for PubMed, 6 for RePORTER).           *)
C7_TransientRetried ==
    /\ (Transient(last) /\ requests < maxRetries(client))
          => (cpc = "loop" /\ attempt = requests /\ attempt < maxRetries(client))
    /\ (cpc = "failed" /\ Transient(last))
          => requests = IF client = "reporter" THEN 6 ELSE 8

\* the RePORTER client gave up after six timeouts
C7_Witness ==
    /\ client = "reporter" /\ cpc = "failed"
    /\ last.kind = "timeout" /\ requests = 6

\* the PubMed client is about to try again after a 503
C7_WitnessRetry ==
    /\ client = "ncbi" /\ cpc = "loop"
    /\ last = [kind |-> "http", status |-> 503] /\ requests = 7 /\ attempt = 7

(* C8: on an HTTP error status outside the retryable set the client fails   *)
(* on that attempt, with the status and the body in the error, and issues   *)
(* no further request.                                                      *)
C8_NonRetryableFailsAtOnce ==
    (last.kind = "http" /\ last.status \notin RETRYABLE_STATUSES)
        => /\ cpc \in {"failed", "idle"}
           /\ error = [kind |-> "http", status |-> last.status, body |-> TRUE]

-----------------------------------------------------------------------------
(* C11: the curation table holds at most one verdict per (researcher,       *)
(* record) pair in every reachable state; a verdict written for a pair that *)
(* has one (operator upsert, or the seed of a file that lists an identifier *)
(* as both false and true positive) replaces it.                            *)
C11_OneVerdictPerPair ==
    \A x \in db.curation, y \in db.curation :
        (x.faculty_id = y.faculty_id /\ x.pmid = y.pmid) => x = y

\* the seed wrote f1's 101 twice (false, then true positive) and the operator
\* turned f2's seeded false_positive into true_positive: one row per pair
C11_Witness ==
    /\ legacy.exists
    /\ db.curation = {[faculty_id |-> "f1", pmid |-> 101, verdict |-> "true_positive"],
                      [faculty_id |-> "f2", pmid |-> 101, verdict |-> "true_positive"]}

(* C12: no step of a run writes the curation table, except the seed of the  *)
(* legacy file into an empty table when the run starts.                     *)
C12_RunLeavesCuration ==
    [][/\ (pc = "running" => db'.curation = db.curation)
       /\ ((pc = "idle" /\ pc' = "running" /\ db'.curation # db.curation)
              => (db.curation = {} /\ legacy.exists))]_vars

\* a run that found verdicts, wrote publications and associations and ended
C12_Witness ==
    /\ pc = "idle" /\ exitStatus = "ok"
    /\ db.curation # {} /\ ~legacy.exists
    /\ db.publications # {} /\ db.faculty_publications # {}
    /\ \E i \in DOMAIN out.faculty : out.faculty[i].signals.negative.count > 0

(* C13: after replaceCoauthors(f, p, names) the co-author rows of (f, p)     *)
(* are exactly the distinct non-empty names given, the rows of every other  *)
(* pair are unchanged, and the store's table changes in one step from the   *)
(* table before the call to the complete result, or not at all.             *)
C13_ReplaceCoauthors ==
    /\ [](tx.stage = "committed" =>
            /\ {r.name : r \in {x \in db.coauthors :
                    x.faculty_id = tx.faculty_id /\ x.pmid = tx.pmid}}
                  = {tx.names[j] : j \in DOMAIN tx.names} \ {""}
            /\ {x \in db.coauthors : ~(x.faculty_id = tx.faculty_id /\ x.pmid = tx.pmid)}
                  = {x \in tx.before : ~(x.faculty_id = tx.faculty_id /\ x.pmid = tx.pmid)}
            /\ db.coauthors = replaceCoauthors(tx.before, tx.faculty_id, tx.pmid,
                                               {tx.names[j] : j \in DOMAIN tx.names}))
    /\ [](tx.stage \in {"delete", "insert", "rolledback"} => db.coauthors = tx.before)
    /\ [][db'.coauthors # db.coauthors => (tx.stage = "insert" /\ tx'.stage = "committed")]_vars

\* (f1, 101) had Au1 and Au2, f2 has a row; the call with <<"Au1", "Au1">> left
\* one row Au1 for f1 and f2's row as it was
C13_Witness ==
    /\ tx.stage = "committed" /\ tx.faculty_id = "f1" /\ tx.names = <<"Au1", "Au1">>
    /\ [faculty_id |-> "f1", pmid |-> 101, name |-> "Au2"] \in tx.before
    /\ [faculty_id |-> "f2", pmid |-> 101, name |-> "Au2"] \in db.coauthors
    /\ Cardinality({x \in db.coauthors : x.faculty_id = "f1"}) = 1

\* a call killed after its DELETE and one INSERT: the rows are as before the call
C13_WitnessRollback ==
    /\ tx.stage = "rolledback" /\ tx.i = 2 /\ tx.names = <<"Au1", "">>
    /\ tx.work # tx.before
    /\ [faculty_id |-> tx.faculty_id, pmid |-> 101, name |-> "Au2"] \in db.coauthors

\* the store without its timestamps
withoutTimestamps(d) ==
    [publications |-> d.publications,
     associations |-> {<<a.faculty_id, a.pmid>> : a \in d.faculty_publications},
     curation |-> d.curation,
     coauthors |-> d.coauthors]

(* C14: a run killed between two store statements and then run again to     *)
(* completion with the same inputs keeps the rows written before the kill   *)
(* and ends with the store contents (timestamps aside) and the output       *)
(* document of one uninterrupted run started from the same store.           *)
C14_KillThenRerun ==
    pc = "idle" =>
        \A pf \in [Faculty -> Resp] :
            ConsistentProvider(pf) =>
                \A i \in DOMAIN FACULTY, k \in 0..3 :
                    LET whole == Run(db, legacy, pf, now + 1)
                        killed == RunKilled(db, legacy, pf, now + 1, i, k)
                        rerun == Run(killed, legacy, pf, now + 2)
                    IN /\ {x.pmid : x \in killed.publications}
                            \subseteq {x.pmid : x \in rerun.db.publications}
                       /\ withoutTimestamps(killed).associations
                            \subseteq withoutTimestamps(rerun.db).associations
                       /\ withoutTimestamps(rerun.db) = withoutTimestamps(whole.db)
                       /\ rerun.faculty = whole.faculty

(* C15: at every moment, also after a kill at any point of a run, the       *)
(* output file holds a complete document (the previous run's or the         *)
(* current run's), never a partial one.                                     *)
C15_AtomicOverwrite ==
    disk.exists => disk.faculty \in OutputDocs

(* C16: researchers are processed in roster order; every request and       *)
(* every store write of one researcher completes before the first request  *)
(* of the next is issued, with a pause between the two; cycles never       *)
(* overlap.                                                                *)
C16_Sequential ==
    /\ \A x \in seq.inflight : x.person = seq.i
    /\ Cardinality(seq.inflight) <= 1
    /\ \A a \in DOMAIN seq.log, b \in DOMAIN seq.log :
          a < b => seq.log[a].person <= seq.log[b].person
    /\ \A a \in DOMAIN seq.log :
          (a < Len(seq.log) /\ seq.log[a].person # seq.log[a + 1].person)
              => /\ seq.log[a].kind = "pause"
                 /\ seq.log[a + 1].person = seq.log[a].person + 1
                 /\ seq.log[a + 1] = [person |-> seq.log[a].person + 1,
                                      kind |-> "request", what |-> "search"]
    /\ \A b \in DOMAIN seq.log :
          seq.log[b].kind = "request" =>
              \A a \in 1..(b - 1) :
                  seq.log[a].kind = "request" =>
                      \E c \in (a + 1)..(b - 1) :
                          seq.log[c] = [seq.log[a] EXCEPT !.kind = "response"]

\* the loop ended; both researchers had every kind of request, two chunks of
\* article XML among them
C16_Witness ==
    /\ seq.at = "done"
    /\ \A j \in DOMAIN FACULTY :
          /\ \E a \in DOMAIN seq.log :
                seq.log[a] = [person |-> j, kind |-> "request", what |-> "missing"]
          /\ Cardinality({a \in DOMAIN seq.log :
                seq.log[a] = [person |-> j, kind |-> "response", what |-> "xml"]}) = 2
          /\ \E a \in DOMAIN seq.log :
                seq.log[a] = [person |-> j, kind |-> "write", what |-> "store"]

\* a is a prefix of b
IsPrefix(a, b) == Len(a) <= Len(b) /\ SubSeq(b, 1, Len(a)) = a

\* the author entry shares family name and first initial with a variant, and
\* its given name is not equal to, a prefix of, or prefixed by any variant's
InitialsOnly(author, person) ==
    LET variants == IF Len(person.nameVariants) > 0 THEN person.nameVariants
                    ELSE <<[foreName |-> person.foreName, lastName |-> person.lastName]>>
        given == normalizeName(author.ForeName)
    IN /\ \E i \in DOMAIN variants :
            /\ normalizeName(author.LastName) = normalizeName(variants[i].lastName)
            /\ given[1] = normalizeName(variants[i].foreName)[1]
       /\ \A i \in DOMAIN variants :
            /\ ~IsPrefix(given, normalizeName(variants[i].foreName))
            /\ ~IsPrefix(normalizeName(variants[i].foreName), given)

(* C17: for a researcher without persistent identifier and with initials   *)
(* matching disabled, the search has no initials clause and an author      *)
(* entry that agrees only in family name and first initial is not matched. *)
C17_NoInitialsOnlyMatch ==
    (/\ ret.stage = "searched"
     /\ arg.person.orcid = <<>>
     /\ ~arg.ALLOW_INITIALS)
        => /\ \A c \in ret.clauses : c.tag = "fau"
           /\ (/\ normalizeName(arg.author.ForeName) # <<>>
               /\ InitialsOnly(arg.author, arg.person)) => ~ret.matched

\* the orders of the indexes 1..n
orderings(n) ==
    {f \in [1..n -> 1..n] : \A i \in 1..n, j \in 1..n : f[i] = f[j] => i = j}

(* C20: the author match does not depend on the order of the researcher's  *)
(* name variants: for every author entry and every permutation of the      *)
(* variant list authorMatchesPerson returns the same answer.                *)
C20_VariantOrderIrrelevant ==
    ret.stage = "matched" =>
        \A f \in orderings(Len(arg.person.nameVariants)) :
            authorMatchesPerson(arg.author,
                [arg.person EXCEPT !.nameVariants =
                    [i \in DOMAIN arg.person.nameVariants |-> arg.person.nameVariants[f[i]]]])
                = ret.matched

\* variants ("J","Smith"), ("Jane","Smith"): the entry "Smith, J" matches
C20_Witness ==
    /\ ret.stage = "matched" /\ ret.matched
    /\ arg.person.orcid = <<>>
    /\ arg.person.nameVariants =
            <<[foreName |-> <<"J">>, lastName |-> <<"S", "m", "i", "t", "h">>], [foreName |-> <<"J", "a", "n", "e">>, lastName |-> <<"S", "m", "i", "t", "h">>]>>
    /\ arg.author = [LastName |-> <<"S", "m", "i", "t", "h">>, ForeName |-> <<"J">>, Initials |-> <<"J">>, orcid |-> <<>>]

\* the same variants: the entry "Smith, Jane" matches
C20_WitnessFullName ==
    /\ ret.stage = "matched" /\ ret.matched
    /\ arg.person.orcid = <<>>
    /\ arg.person.nameVariants =
            <<[foreName |-> <<"J">>, lastName |-> <<"S", "m", "i", "t", "h">>], [foreName |-> <<"J", "a", "n", "e">>, lastName |-> <<"S", "m", "i", "t", "h">>]>>
    /\ arg.author = [LastName |-> <<"S", "m", "i", "t", "h">>, ForeName |-> <<"J", "a", "n", "e">>, Initials |-> <<"J">>, orcid |-> <<>>]

\* the indexes (from 0) of the author entries that match the researcher
matchingIndexes == {i \in 0..(Len(arg.authors) - 1) :
                        authorMatchesPerson(arg.authors[i + 1], arg.person)}

(* C18: every authorship fact satisfies 0 <= position < total, isFirst      *)
(* exactly when position = 0, isLast exactly when position = total - 1, so  *)
(* both hold exactly for a single author; with 5 authors and the            *)
(* researcher at index 4 the fact is {4, 5, false, true}.                   *)
C18_AuthorshipFact ==
    (ret.stage = "resolved" /\ ~ret.authorship.null) =>
        LET fact == ret.authorship
        IN /\ 0 <= fact.position /\ fact.position < fact.total
           /\ fact.total = Len(arg.authors)
           /\ fact.position \in matchingIndexes
           /\ fact.isFirst <=> fact.position = 0
           /\ fact.isLast <=> fact.position = fact.total - 1
           /\ (fact.isFirst /\ fact.isLast) <=> fact.total = 1
           /\ (Len(arg.authors) = 5 /\ matchingIndexes = {4})
                => fact = [null |-> FALSE, position |-> 4, total |-> 5,
                           isFirst |-> FALSE, isLast |-> TRUE]

\* five authors, the researcher the last of them
C18_Witness ==
    /\ ret.stage = "resolved"
    /\ Len(arg.authors) = 5 /\ matchingIndexes = {4}
    /\ ret.authorship = [null |-> FALSE, position |-> 4, total |-> 5,
                         isFirst |-> FALSE, isLast |-> TRUE]

\* the researcher is the only author: first and last
C18_WitnessSole ==
    /\ ret.stage = "resolved"
    /\ Len(arg.authors) = 1
    /\ ret.authorship.isFirst /\ ret.authorship.isLast

\* the non-empty affiliation strings of an author entry
affiliationStrings(author) ==
    {author.affiliations[i] : i \in DOMAIN author.affiliations} \ {<<>>}

\* the allowed terms of the researcher, normalized
allowedOfArg ==
    LET terms == normalizedAllowedOf(arg.affiliationTerms, UniversityOfMinnesota)
    IN {terms[i] : i \in DOMAIN terms}

\* the entry alone decides: no affiliation string, or one containing an allowed term
entryAccepted(author) ==
    \/ affiliationStrings(author) = {}
    \/ \E aff \in affiliationStrings(author), term \in allowedOfArg :
          includes(normalizeAffiliation(aff), term)

firstMatching == arg.authors[(CHOOSE i \in matchingIndexes :
                                 \A j \in matchingIndexes : i <= j) + 1]

(* C19: with affiliation validation on, a record is accepted exactly when   *)
(* some author entry matches the researcher and the first matching entry    *)
(* has no affiliation string at all or has a normalized affiliation that    *)
(* contains a normalized allowed term; the other authors' affiliations do   *)
(* not decide.                                                              *)
C19_FirstMatchDecides ==
    ret.stage = "resolved" =>
        (ret.kept <=> (matchingIndexes # {} /\ entryAccepted(firstMatching)))

\* "Larson EW" at "University of Minnesota Dept of Medicine" is accepted,
\* whatever the other authors
C19_Witness ==
    /\ ret.stage = "resolved"
    /\ Len(arg.authors) > 1
    /\ matchingIndexes # {}
    /\ firstMatching.affiliations = <<MinnesotaMedicine>>
    /\ ret.kept

\* "Larson EW" at "University of Wisconsin" is not accepted, although another
\* author of the record is at the University of Minnesota
C19_WitnessRejected ==
    /\ ret.stage = "resolved"
    /\ matchingIndexes # {}
    /\ firstMatching.affiliations = <<UniversityOfWisconsin>>
    /\ \E i \in DOMAIN arg.authors :
          /\ (i - 1) \notin matchingIndexes
          /\ UniversityOfMinnesota \in affiliationStrings(arg.authors[i])
    /\ ~ret.kept

\* the matching entry carries no affiliation string: accepted
C19_WitnessNoAffiliation ==
    /\ ret.stage = "resolved"
    /\ matchingIndexes # {}
    /\ affiliationStrings(firstMatching) = {}
    /\ ret.kept /\ ret.missingAffiliation


\* the characters kept by /[^a-z0-9]/ after lowercasing
alphanumeric(ch) ==
    lowerChar(ch) \in {LowerCase[k] : k \in DOMAIN LowerCase} \cup Digits

\* the maximal runs <<i, j>> of alphanumeric characters of a title
titleTokens(title) ==
    {r \in (1..Len(title)) \X (1..Len(title)) :
        /\ r[1] <= r[2]
        /\ \A k \in r[1]..r[2] : alphanumeric(title[k])
        /\ r[1] = 1 \/ ~alphanumeric(title[r[1] - 1])
        /\ r[2] = Len(title) \/ ~alphanumeric(title[r[2] + 1])}

\* the runs that are kept: 3 characters or more, not a stopword
retained(title) ==
    {r \in titleTokens(title) :
        /\ r[2] - r[1] + 1 >= 3
        /\ toLowerCase(SubSeq(title, r[1], r[2])) \notin STOPWORDS}

\* the keywords are the retained tokens, lowercased, in title order
keywordsAreRetained ==
    LET keep == retained(arg.title)
    IN /\ Len(ret.keywords) = Cardinality(keep)
       /\ \A r \in keep :
             ret.keywords[Cardinality({q \in keep : q[1] <= r[1]})]
                 = toLowerCase(SubSeq(arg.title, r[1], r[2]))

(* C21, as stated: keyword extraction keeps exactly the title tokens        *)
(* (lowercased, split on non-alphanumerics) of at least 3 characters that   *)
(* are not stopwords, and the title "Outcomes of Long-Term Follow-Up        *)
(* Studies in Diabetes" yields ["diabetes"] only.                           *)
C21_KeywordsAsStated ==
    ret.stage = "extracted" =>
        /\ keywordsAreRetained
        /\ arg.title = ExampleTitle => ret.keywords = <<<<"d", "i", "a", "b", "e", "t", "e", "s">>>>

(* C21, amended: the same rule; the example title yields                    *)
(* ["term", "follow", "diabetes"], since "term" and "follow" are not in     *)
(* the stopword list.                                                       *)
C21_Keywords ==
    ret.stage = "extracted" =>
        /\ keywordsAreRetained
        /\ arg.title = ExampleTitle =>
              ret.keywords = <<<<"t", "e", "r", "m">>,
                               <<"f", "o", "l", "l", "o", "w">>,
                               <<"d", "i", "a", "b", "e", "t", "e", "s">>>>

\* the example title has been processed
C21_Witness ==
    /\ ret.stage = "extracted"
    /\ arg.title = ExampleTitle
    /\ Len(ret.keywords) = 3

\* a title with a 3-character token and a stopword
C21_WitnessShort ==
    /\ ret.stage = "extracted"
    /\ arg.title = joinWords(<<<<"R", "N", "A">>, <<"i", "n">>, <<"S", "t", "u", "d", "i", "e", "s">>>>)
    /\ ret.keywords = <<<<"r", "n", "a">>>>


(* C22: after a researcher f is processed, every record with a verdict of   *)
(* f that the provider can summarize has a publications row, also when the  *)
(* search did not return it, and f's false-positive records are in the      *)
(* rejected set of f's negative signals.                                    *)
C22_CuratedRecordsKept ==
    (pc = "running" /\ cycle.person \in Faculty) =>
        LET f == cycle.person
            negative == results[Len(results)].signals.negative
        IN /\ \A p \in PMIDS :
                 ((HasVerdict(f, p, "true_positive") \/ HasVerdict(f, p, "false_positive"))
                     /\ cycle.resp[p].summary)
                   => \E row \in db.publications : row.pmid = p
           /\ negative.count >= Cardinality({p \in PMIDS :
                    HasVerdict(f, p, "false_positive") /\ cycle.resp[p].summary})

\* the first researcher of the first run has a false-positive record that the
\* search does not return: the dedicated fetch brings its row
C22_Witness ==
    /\ pc = "running" /\ now = 1 /\ cycle.person = "f1"
    /\ HasVerdict("f1", 101, "false_positive")
    /\ ~cycle.resp[101].inSearch /\ cycle.resp[101].summary
    /\ \E row \in db.publications : row.pmid = 101
    /\ results[1].signals.negative.count = 1


(* C23: the pause after failed attempt k is the base delay 800 * 2^k ms,    *)
(* doubling with each attempt, times a jitter factor that keeps the pause   *)
(* within 25% of the base delay on either side.                             *)
C23_BackoffPause ==
    [][attempt' = attempt + 1 =>
          LET baseDelay == 800 * Pow2(attempt)
          IN /\ 4 * pause' >= 3 * baseDelay
             /\ 4 * pause' <= 5 * baseDelay]_vars

\* the pause after failed attempt 2, with the largest jitter: 3200 * 1.24 ms
C23_Witness ==
    /\ cpc = "loop" /\ attempt = 3
    /\ pause = 3968

\* the pause after failed attempt 0 without jitter
C23_WitnessFirst ==
    /\ cpc = "loop" /\ attempt = 1
    /\ pause = 800


(* C28: for every sequence of provider responses one call of the client     *)
(* issues at most maxRetries requests, returns on the first successful      *)
(* response without a further request, and always ends by returning or by   *)
(* failing.                                                                 *)
C28_CallEnds ==
    /\ [](requests <= maxRetries(client))
    /\ [](cpc = "returned" => last.kind = "ok")
    /\ [][(requests' = requests + 1 /\ last'.kind = "ok") => cpc' = "returned"]_vars
    /\ [][cpc = "returned" => requests' = requests]_vars
    /\ (cpc = "loop") ~> (cpc \in {"returned", "failed"})

\* a call that used every one of its maxRetries requests and failed
C28_Witness ==
    /\ client = "reporter" /\ cpc = "failed"
    /\ requests = MaxRetriesReporter
    /\ error.kind = "after_retries"

\* a call that returned on its third request
C28_WitnessReturned ==
    /\ cpc = "returned" /\ requests = 3 /\ attempt = 2


\* the author entries (indexes from 1) that the claim lists as co-authors:
\* every entry but the match, with a non-empty display name
otherAuthors ==
    {i \in DOMAIN arg.authors :
        /\ formatAuthorName(arg.authors[i]) # <<>>
        /\ \/ (i - 1) \notin matchingIndexes
           \/ \E j \in matchingIndexes : j < i - 1}

(* C24: for every resolved record the match is the first author entry that  *)
(* satisfies the match test, and the co-author list holds the display names *)
(* of all the other author entries with a non-empty name, in author-list    *)
(* order, and not the matched entry.                                        *)
C24_CoauthorsAreTheOthers ==
    ret.stage = "resolved" =>
        /\ ret.authorship.null <=> matchingIndexes = {}
        /\ ~ret.authorship.null =>
              \A j \in matchingIndexes : ret.authorship.position <= j
        /\ Len(ret.coauthors) = Cardinality(otherAuthors)
        /\ \A i \in otherAuthors :
              ret.coauthors[Cardinality({j \in otherAuthors : j <= i})]
                  = formatAuthorName(arg.authors[i])


\* the values of the tally, their keys, and per key the count and the first value
counted == tallied(arg.kind, arg.values)
keysCounted ==
    {normalizeOf(arg.kind, counted[i]) : i \in DOMAIN counted} \ {<<>>}
\* the UTF-16 code unit of a character
codeUnit(ch) ==
    CASE ch = " " -> 32
      [] ch = "-" -> 45
      [] ch = "." -> 46
      [] ch \in Digits -> 48 + digitIndex(ch)
      [] lowerChar(ch) # ch -> 64 + letterIndex(ch)
      [] OTHER -> 96 + letterIndex(ch)

\* a before b in the lexicographic order of the strings (code unit by code unit)
lexicographicBefore(a, b) ==
    compareWeights([i \in DOMAIN a |-> codeUnit(a[i])],
                   [i \in DOMAIN b |-> codeUnit(b[i])]) < 0

\* a before b in the alphabetical order of the locale
localeBefore(a, b) == localeCompare(a, b) < 0

\* the ranked list under an order `before` of the labels: one entry per key with
\* its count and first label, sorted by count, then by label, cut at the limit
rankedList(before(_, _)) ==
    LET list == ret.list
        values == counted
        keys == [i \in DOMAIN values |-> normalizeOf(arg.kind, values[i])]
        countOfKey(k) == Cardinality({i \in DOMAIN keys : keys[i] = k})
        labelOfKey(k) == values[CHOOSE i \in DOMAIN keys :
                                    keys[i] = k /\ \A j \in 1..(i - 1) : keys[j] # k]
        keySet == {keys[i] : i \in DOMAIN keys} \ {<<>>}
        listed == [i \in DOMAIN list |-> normalizeOf(arg.kind, list[i].name)]
        rankedAhead(c1, l1, c2, l2) == c1 > c2 \/ (c1 = c2 /\ before(l1, l2))
    IN /\ Len(list) = IF Cardinality(keySet) < limitOf(arg.kind)
                      THEN Cardinality(keySet) ELSE limitOf(arg.kind)
       /\ \A i \in DOMAIN list :
             /\ listed[i] \in keySet
             /\ list[i].name = labelOfKey(listed[i])
             /\ list[i].count = countOfKey(listed[i])
       /\ \A i \in DOMAIN list, j \in DOMAIN list :
             i < j => rankedAhead(list[i].count, list[i].name, list[j].count, list[j].name)
       /\ \A k \in keySet \ {listed[i] : i \in DOMAIN list}, i \in DOMAIN list :
             rankedAhead(list[i].count, list[i].name, countOfKey(k), labelOfKey(k))

(* C25, as stated: each ranked list is sorted by count in non-increasing    *)
(* order, entries of equal count by the lexicographic order of their        *)
(* labels; values equal after normalization are one entry labelled with the *)
(* first value seen; the list holds at most its limit of entries (10        *)
(* venues, 12 keywords, 12 co-authors), the first ones of that order.       *)
C25_RankedLexicographic ==
    ret.stage = "ranked" => rankedList(lexicographicBefore)

(* C25, amended: the same, with entries of equal count ordered by           *)
(* localeCompare of their labels, the alphabetical order of the locale, in  *)
(* which "eLife" comes before "Gut" and "jama" before "JAMA".               *)
C25_RankedList ==
    ret.stage = "ranked" => rankedList(localeBefore)

\* thirteen venues, one of them spelled in three ways: the list is cut at 10,
\* its first entry counts 3 and carries the first spelling seen
C25_Witness ==
    /\ ret.stage = "ranked" /\ arg.kind = "topJournals"
    /\ Cardinality(keysCounted) = 13
    /\ Len(ret.list) = 10
    /\ \E i \in DOMAIN ret.list, j \in DOMAIN ret.list :
          /\ i < j /\ ret.list[i].count = ret.list[j].count
          /\ lexicographicBefore(ret.list[j].name, ret.list[i].name)

\* spellings of one venue counted together under the first one seen
C25_WitnessGrouped ==
    /\ ret.stage = "ranked" /\ arg.kind = "topJournals"
    /\ Len(arg.values) = 14
    /\ ret.list[1].count = 4
    /\ ret.list[1].name # BaseValues[4]

\* more than 12 keywords: the list is cut at 12
C25_WitnessKeywords ==
    /\ ret.stage = "ranked" /\ arg.kind = "topKeywords"
    /\ Cardinality(keysCounted) > 12
    /\ Len(ret.list) = 12


\* the store without the association and curation rows of researcher g
withoutRowsOf(d, g) ==
    [d EXCEPT !.faculty_publications = {r \in @ : r.faculty_id # g},
              !.curation = {r \in @ : r.faculty_id # g}]

\* the store in which researcher g is associated with every record and has
\* rejected every record
withAllRowsOf(d, g) ==
    [d EXCEPT !.faculty_publications = {r \in @ : r.faculty_id # g}
                  \cup {[faculty_id |-> g, pmid |-> p, first_seen_at |-> now,
                         last_seen_at |-> now] : p \in PMIDS},
              !.curation = {r \in @ : r.faculty_id # g}
                  \cup {[faculty_id |-> g, pmid |-> p, verdict |-> "false_positive"] :
                            p \in PMIDS}]

(* C26: the accepted read for researcher f returns exactly the records with *)
(* an association row (f, p) and no false_positive verdict for (f, p); the  *)
(* rows of another researcher on the same record neither add p to nor       *)
(* remove p from f's accepted set; the rejected read for f returns only     *)
(* records with a false_positive verdict for f.                             *)
C26_ReadsArePerResearcher ==
    \A f \in Faculty :
        /\ {row.pmid : row \in getPublicationsForFaculty(db, f)}
              = {p \in PMIDS : Associated(f, p) /\ ~HasVerdict(f, p, "false_positive")}
        /\ \A row \in getFalsePositivePublications(db, f) :
              HasVerdict(f, row.pmid, "false_positive")
        /\ \A g \in Faculty \ {f} :
              /\ getPublicationsForFaculty(withoutRowsOf(db, g), f)
                    = getPublicationsForFaculty(db, f)
              /\ getPublicationsForFaculty(withAllRowsOf(db, g), f)
                    = getPublicationsForFaculty(db, f)
              /\ getFalsePositivePublications(withoutRowsOf(db, g), f)
                    = getFalsePositivePublications(db, f)
              /\ getFalsePositivePublications(withAllRowsOf(db, g), f)
                    = getFalsePositivePublications(db, f)

\* f1 and f2 are both associated with record 101, f2 has rejected it: it is in
\* f1's accepted set, not in f2's, and in f2's rejected set only
C26_Witness ==
    /\ Associated("f1", 101) /\ Associated("f2", 101)
    /\ HasVerdict("f2", 101, "false_positive")
    /\ ~HasVerdict("f1", 101, "false_positive")
    /\ \E row \in getPublicationsForFaculty(db, "f1") : row.pmid = 101
    /\ getPublicationsForFaculty(db, "f2") = {}
    /\ getFalsePositivePublications(db, "f1") = {}
    /\ \E row \in getFalsePositivePublications(db, "f2") : row.pmid = 101


-----------------------------------------------------------------------------
\* the association row of (f, p) is inserted, or its last_seen_at changes, in the step
associationWritten(f, p) ==
    \E a \in db'.faculty_publications :
        a.faculty_id = f /\ a.pmid = p /\ a \notin db.faculty_publications

\* the publication date the cycle resolves for a record: the date of the article
\* XML, else the date of the summary
resolvedDate(c) == IF c.inSearch /\ c.xdate # NoDate THEN c.xdate ELSE c.sdate

\* the first day of the month of a date
firstOfMonth(date) == (date \div 100) * 100 + 1

C27_WitnessBeforeStart ==
    /\ cycle.person # "none"
    /\ \A v \in {"true_positive", "false_positive"} : ~HasVerdict(cycle.person, 101, v)
    /\ cycle.resp[101].inSearch /\ cycle.resp[101].match = "ok" /\ cycle.resp[101].summary
    /\ cycle.resp[101].xdate = NoDate
    /\ cycle.resp[101].sdate = Date(2020, 3, 1)
    /\ getFullYear(cycle.resp[101].sdate) = getFullYear(personStartDate)
    /\ ~Associated(cycle.person, 101)

\* a record of January 2022, after the end date, is not associated
C27_WitnessAfterEnd ==
    /\ cycle.person # "none"
    /\ \A v \in {"true_positive", "false_positive"} : ~HasVerdict(cycle.person, 101, v)
    /\ cycle.resp[101].inSearch /\ cycle.resp[101].match = "ok" /\ cycle.resp[101].summary
    /\ cycle.resp[101].xdate = NoDate
    /\ cycle.resp[101].sdate > personEndDate
    /\ ~Associated(cycle.person, 101)

\* an association made in an earlier run has its last-seen time extended
C27_WitnessExtended ==
    /\ cycle.person # "none"
    /\ \A v \in {"true_positive", "false_positive"} : ~HasVerdict(cycle.person, 101, v)
    /\ \E a \in db.faculty_publications :
          /\ a.faculty_id = cycle.person /\ a.pmid = 101
          /\ a.first_seen_at < a.last_seen_at /\ a.last_seen_at = now


-----------------------------------------------------------------------------
(* C29: in a researcher's cycle every provider request (search, article XML *)
(* batches, summary batches, the fetch for curated identifiers) comes ahead *)
(* of the first store statement, so a cycle that ends with a request        *)
(* failing terminally leaves the publications, association and co-author    *)
(* rows as they were when the cycle began.                                  *)
C29_FailedCycleWritesNothing ==
    [][/\ \A i \in DOMAIN CycleStatements, j \in DOMAIN CycleStatements :
             (CycleStatements[i].kind = "request" /\ CycleStatements[j].kind = "write")
                => i < j
       /\ (pc = "running" /\ exitStatus' = "fail")
             => /\ db'.publications = db.publications
                /\ db'.faculty_publications = db.faculty_publications
                /\ db'.coauthors = db.coauthors]_vars

\* the second researcher's cycle failed in a run in which the first one's cycle
\* wrote its rows: the store has the first one's rows and none of the second's
C29_Witness ==
    /\ exitStatus = "fail" /\ failed = {FACULTY[2]} /\ now = 1
    /\ \E a \in db.faculty_publications : a.faculty_id = FACULTY[1] /\ a.last_seen_at = now
    /\ \A a \in db.faculty_publications : a.faculty_id # FACULTY[2]
    /\ \A c \in db.coauthors : c.faculty_id # FACULTY[2]

\* the cycle of a researcher with a curated record failed, the one in which
\* the dedicated fetch is made last: the store has no publications row
C29_WitnessCurated ==
    /\ exitStatus = "fail" /\ failed = {FACULTY[1]}
    /\ \E c \in db.curation : c.faculty_id = FACULTY[1]
    /\ db.publications = {}


-----------------------------------------------------------------------------
(* C30: in every store state that runs of the pipeline reach, the states    *)
(* after a kill between two store statements included, every association    *)
(* row (researcher, record) has a publications row of the same record.      *)
C30_AssociationHasPublication ==
    \A a \in db.faculty_publications : \E x \in db.publications : x.pmid = a.pmid

\* a run was killed after it wrote an association row and before it wrote
\* the co-authors of that record
C30_Witness ==
    /\ exitStatus = "killed"
    /\ \E a \in db.faculty_publications :
          /\ a.first_seen_at = now /\ a.last_seen_at = now
          /\ \E x \in db.publications : x.pmid = a.pmid
          /\ \A c \in db.coauthors : ~(c.faculty_id = a.faculty_id /\ c.pmid = a.pmid)

\* a run was killed after it wrote a publications row and before it wrote the
\* association row: the row is there, linked to nobody
C30_WitnessOrphan ==
    /\ exitStatus = "killed"
    /\ db.publications # {} /\ db.faculty_publications = {}

====
